---- MODULE Spec2Model ----
(***************************************************************************)
(* A model of the lnc toolchain: the assembler (src/src/assembler.rs), the *)
(* interpreter (src/src/interpreter.rs), its queue and stack ports         *)
(* (src/src/vec_io.rs), the run loops of src/src/cli.rs, and the front     *)
(* end: the lexer (src/src/lex.rs), the parser (src/src/parse.rs) and      *)
(* make_program (src/src/lib.rs).                                          *)
(*                                                                         *)
(* The interpreter's fields are the variables mem, pc, acc, neg_flag and   *)
(* halted; input, output and log are the three injected ports.  log keeps  *)
(* the messages of the most recent step() call only; result is what that   *)
(* call returned.                                                          *)
(***************************************************************************)
EXTENDS Integers, Sequences, FiniteSets, TLC

\* parse_info  the ParseInfo of the program (make_program's parse_info)
\* mem .. halted  the fields of the Interpreter
\* input, output  the objects behind the Input and Output ports
\* log         the messages the logger received from the current step() call
\* result      what the most recent step() call returned
\* cpc         where the caller of the interpreter is: "api" (any caller of
\*             step()), "run" (the loop of run), "tests" (the for loop of
\*             run_tests), "test" (the loop of run_test), "returned"
\* ins_count   the caller's count of executed instructions
\* results     run_tests' results, one LNCTestInfo per finished test
\* source      the source text handed to make_program, a sequence of lines,
\*             each line a sequence of characters
\* lexer       the Lexer of the line tokenize is at
\* lex_errors  the errors vector of tokenize
\* tokens      the tokens vector of tokenize, then the slice the Parser borrows
\* parser      the Parser: it (the index of the next token), paddr, info,
\*             errors, and ret, what make_instructions returned
\* parsed      what parse returned
\* assembled   what assemble returned
\* made        what make_program returned
\* table       the rows of the memory table run_debugger printed last
VARIABLES parse_info, mem, pc, acc, neg_flag, halted,
          input, output, log, result, cpc, ins_count, results,
          source, lexer, lex_errors, tokens, parser, parsed, assembled, made,
          table

\* The state of the back end (interpreter and its callers) and of the front
\* end (lexer, parser, assembler, make_program).
back == <<parse_info, mem, pc, acc, neg_flag, halted,
          input, output, log, result, cpc, ins_count, results, table>>
front == <<source, lexer, lex_errors, tokens, parser, parsed, assembled, made>>

vars == <<parse_info, mem, pc, acc, neg_flag, halted,
          input, output, log, result, cpc, ins_count, results,
          source, lexer, lex_errors, tokens, parser, parsed, assembled, made,
          table>>

\* ------------------------------------------------------------ bounds
\* Longest generated program (the named programs are longer).
MaxLen == 2
\* Longest generated pre-loaded input sequence.
MaxInputs == 1
\* A caller executes at most MaxSteps instructions: ins_count is capped.
MaxSteps == 30

\* ------------------------------------------------- program constants
MemSize == 100
ValueLimit == 1000
MaxInstructions == 100

\* ------------------------------------------------------------ results
\* Result<T, E>: Ok(v) or Err(e).  A message is its text and its arguments.
Msg(text, args) == [msg |-> text, args |-> args]
Ok(v) == [ok |-> TRUE, val |-> v]
Err(e) == [ok |-> FALSE, err |-> e]
IsOk(r) == "val" \in DOMAIN r
IsErr(r) == "err" \in DOMAIN r
\* A panic: the call never returns.
IsPanic(r) == "panic" \in DOMAIN r

\* ------------------------------------------------ parse.rs data types
Numeric(n) == [kind |-> "Numeric", n |-> n]
Symbolic(s) == [kind |-> "Symbolic", label |-> s]

Load(a) == [op |-> "Load", addr |-> a]
Store(a) == [op |-> "Store", addr |-> a]
Add(a) == [op |-> "Add", addr |-> a]
Subtract(a) == [op |-> "Subtract", addr |-> a]
BranchZero(a) == [op |-> "BranchZero", addr |-> a]
BranchPositive(a) == [op |-> "BranchPositive", addr |-> a]
BranchAlways(a) == [op |-> "BranchAlways", addr |-> a]
Input == [op |-> "Input"]
Output == [op |-> "Output"]
Halt == [op |-> "Halt"]
Data(n) == [op |-> "Data", data |-> n]

LNCTest(name, inputs, outputs) ==
    [name |-> name, inputs |-> inputs, outputs |-> outputs]

ParseInfo(instructions, label_map, tests) ==
    [instructions |-> instructions, label_map |-> label_map, tests |-> tests]

\* The empty HashMap.
NoLabels == [l \in {} |-> 0]

\* ---------------------------------------------------------- assembler
\* A lookup that takes an undefined label for address 0 (C14 must not hold
\* of it).
resolve_symb_addr_default(label, label_map) ==
    Ok(IF label \in DOMAIN label_map THEN label_map[label] ELSE 0)

resolve_symb_addr(label, label_map) ==
    IF label \in DOMAIN label_map
    THEN Ok(label_map[label])
    ELSE Err([msg |-> "Label is not defined", label |-> label])

resolve_addr(addr, label_map) ==
    IF addr.kind = "Symbolic"
    THEN resolve_symb_addr(addr.label, label_map)
    ELSE Ok(addr.n)

\* The address without the base of the mnemonic (C12 must not hold of it).
with_addr_no_base(base, addr, label_map) == resolve_addr(addr, label_map)

\* base + resolve_addr(addr, label_map)?
with_addr(base, addr, label_map) ==
    LET r == resolve_addr(addr, label_map)
    IN  IF r.ok THEN Ok(base + r.val) ELSE r

\* The match of assemble's loop body: the code of one instruction.
encode(ins, label_map) ==
    CASE ins.op = "Load" -> with_addr(500, ins.addr, label_map)
      [] ins.op = "Store" -> with_addr(300, ins.addr, label_map)
      [] ins.op = "Add" -> with_addr(100, ins.addr, label_map)
      [] ins.op = "Subtract" -> with_addr(200, ins.addr, label_map)
      [] ins.op = "Input" -> Ok(901)
      [] ins.op = "Output" -> Ok(902)
      [] ins.op = "Halt" -> Ok(0)
      [] ins.op = "BranchZero" -> with_addr(700, ins.addr, label_map)
      [] ins.op = "BranchPositive" -> with_addr(800, ins.addr, label_map)
      [] ins.op = "BranchAlways" -> with_addr(600, ins.addr, label_map)
      [] ins.op = "Data" -> Ok(ins.data)

\* assemble with the capacity check off by one (C13 must not hold of it).
assemble_over_capacity(pi) ==
    LET n == Len(pi.instructions)
    IN  IF n > MaxInstructions
        THEN Err(Msg("Too many instructions", <<n>>))
        ELSE LET code == [i \in 1..n |-> encode(pi.instructions[i], pi.label_map)]
                 bad == {i \in 1..n : ~code[i].ok}
             IN  IF bad # {}
                 THEN code[CHOOSE i \in bad : \A j \in bad : i <= j]
                 ELSE Ok([a \in 0..(MemSize - 1) |->
                             IF a < n THEN code[a + 1].val ELSE 0])

\* assemble: the capacity check, then the cells in program order; the first
\* instruction whose address does not resolve ends the loop with its error.
assemble(pi) ==
    LET n == Len(pi.instructions)
    IN  IF n >= MaxInstructions
        THEN Err(Msg("Too many instructions", <<n>>))
        ELSE LET code == [i \in 1..n |-> encode(pi.instructions[i], pi.label_map)]
                 bad == {i \in 1..n : ~code[i].ok}
             IN  IF bad # {}
                 THEN code[CHOOSE i \in bad : \A j \in bad : i <= j]
                 ELSE Ok([a \in 0..(MemSize - 1) |->
                             IF a < n THEN code[a + 1].val ELSE 0])

\* ------------------------------------------------------------- tokens
\* lex.rs Token: kind is the name of the TokenKind variant, n the payload of
\* Number (0 otherwise), s the payload of Label, LabelDef and TestName (""
\* otherwise), line the 0-based source line.
Token(kind, n, s, line) == [kind |-> kind, n |-> n, s |-> s, line |-> line]

\* Option: None, or the value itself.
None == [none |-> TRUE]
IsSome(t) == "none" \notin DOMAIN t

AddrMnemonics ==
    {"Load", "Store", "Add", "Subtract", "BranchZero", "BranchPositive", "BranchAlways"}
NoAddrMnemonics == {"Input", "Output", "Halt"}
EndOfLine == {"NewLine", "Eof"}

\* --------------------------------------------------------------- parser
\* The Parser: it is the rest of the token slice, the tokens not consumed.
Parser_new(toks) ==
    [it |-> toks, paddr |-> 0, info |-> ParseInfo(<<>>, NoLabels, <<>>), errors |-> <<>>]

\* The error of one statement, before add_err_msg gives it its line: the
\* text and the number or the name the message is formatted with.
PErr(text, n, s) == [msg |-> text, n |-> n, s |-> s]

\* What a method of the Parser leaves: the parser and the returned value.
Done(p, ret) == [p |-> p, ret |-> ret]

add_err_msg(p, line, e) ==
    [p EXCEPT !.errors = Append(@, [msg |-> "error @ line", line |-> line, e |-> e])]

peek(p) == IF p.it = <<>> THEN None ELSE Head(p.it)

\* consume: the iterator moves on, unless it is at its end.
consume(p) == IF p.it = <<>> THEN p ELSE [p EXCEPT !.it = Tail(@)]

\* sync: consumes up to, and without, the next NewLine or Eof.
RECURSIVE sync(_)
sync(p) ==
    IF IsSome(peek(p)) /\ peek(p).kind \notin EndOfLine
    THEN sync(consume(p))
    ELSE p

\* add_ins that leaves paddr alone (C15 must not hold of it).
add_ins_same_paddr(p, ins) ==
    [p EXCEPT !.info.instructions = Append(@, ins)]

add_ins(p, ins) ==
    [p EXCEPT !.info.instructions = Append(@, ins), !.paddr = @ + 1]

check_next(p, kind) ==
    LET next == peek(p)
    IN  IF IsSome(next)
        THEN IF next.kind # kind
             THEN Done(p, Err(PErr("expected: found", next.n, next.kind)))
             ELSE Done(consume(p), Ok(<<>>))
        ELSE Done(p, Err(PErr("unexpected EOF: expected", 0, kind)))

check_newline(p) ==
    LET nl_token == peek(p)
    IN  IF IsSome(nl_token)
        THEN IF nl_token.kind \notin EndOfLine
             THEN Done(p, Err(PErr("invalid token: expected end of line",
                                   nl_token.n, nl_token.kind)))
             ELSE Done(consume(p), Ok(<<>>))
        ELSE Done(p, Err(PErr("unexpected EOF: expected address", 0, "")))

\* The Instruction of an address-taking mnemonic token.
InsOf(kind, addr) == [op |-> kind, addr |-> addr]

\* ins_with_addr with the address limit off by one (C19 must not hold of it).
ins_with_addr_limit_off(p, token) ==
    LET addr_token == peek(p)
        q == consume(p)
    IN  IF ~IsSome(addr_token)
        THEN Done(q, Err(PErr("unexpected EOF: expected address", 0, "")))
        ELSE IF addr_token.kind = "Number" /\ addr_token.n > 100
        THEN Done(q, Err(PErr("invalid address: too large", addr_token.n, "")))
        ELSE IF addr_token.kind \notin {"Number", "Label"}
        THEN Done(q, Err(PErr("invalid token: expected address",
                              addr_token.n, addr_token.kind)))
        ELSE LET addr == IF addr_token.kind = "Number"
                         THEN Numeric(addr_token.n)
                         ELSE Symbolic(addr_token.s)
                 nl == check_newline(q)
             IN  IF IsErr(nl.ret)
                 THEN nl
                 ELSE Done(add_ins(nl.p, InsOf(token.kind, addr)), Ok(<<>>))

\* ins_with_addr: the next token is consumed as the address, whatever it is.
ins_with_addr(p, token) ==
    LET addr_token == peek(p)
        q == consume(p)
    IN  IF ~IsSome(addr_token)
        THEN Done(q, Err(PErr("unexpected EOF: expected address", 0, "")))
        ELSE IF addr_token.kind = "Number" /\ addr_token.n >= 100
        THEN Done(q, Err(PErr("invalid address: too large", addr_token.n, "")))
        ELSE IF addr_token.kind \notin {"Number", "Label"}
        THEN Done(q, Err(PErr("invalid token: expected address",
                              addr_token.n, addr_token.kind)))
        ELSE LET addr == IF addr_token.kind = "Number"
                         THEN Numeric(addr_token.n)
                         ELSE Symbolic(addr_token.s)
                 nl == check_newline(q)
             IN  IF IsErr(nl.ret)
                 THEN nl
                 ELSE Done(add_ins(nl.p, InsOf(token.kind, addr)), Ok(<<>>))

\* ins_without_addr without its end-of-line check (C18 must not hold of it).
ins_without_addr_unchecked(p, token) ==
    Done(add_ins(p, [op |-> token.kind]), Ok(<<>>))

ins_without_addr(p, token) ==
    LET nl == check_newline(p)
    IN  IF IsErr(nl.ret)
        THEN nl
        ELSE Done(add_ins(nl.p, [op |-> token.kind]), Ok(<<>>))

\* data: the next token is consumed as the literal; no end-of-line check.
\* A data that wants the end of the line behind its literal (C27 must not
\* hold of it).
data_to_end_of_line(p) ==
    LET num_token == peek(p)
        q == consume(p)
    IN  IF ~IsSome(num_token)
        THEN Done(q, Err(PErr("io token found", 0, "")))
        ELSE IF num_token.kind # "Number"
        THEN Done(q, Err(PErr("invalid token: expected number",
                              num_token.n, num_token.kind)))
        ELSE IF num_token.n >= 1000
        THEN Done(q, Err(PErr("invalid data: too large", num_token.n, "")))
        ELSE IF IsErr(check_newline(q).ret)
        THEN check_newline(q)
        ELSE Done(add_ins(q, Data(num_token.n)), Ok(<<>>))

data(p) ==
    LET num_token == peek(p)
        q == consume(p)
    IN  IF ~IsSome(num_token)
        THEN Done(q, Err(PErr("io token found", 0, "")))
        ELSE IF num_token.kind # "Number"
        THEN Done(q, Err(PErr("invalid token: expected number",
                              num_token.n, num_token.kind)))
        ELSE IF num_token.n >= 1000
        THEN Done(q, Err(PErr("invalid data: too large", num_token.n, "")))
        ELSE Done(add_ins(q, Data(num_token.n)), Ok(<<>>))

\* The loop of number_list with no check on what a comma follows (C20 must
\* not hold of it).
RECURSIVE number_list_loop_any_comma(_, _, _)
number_list_loop_any_comma(p, nums, prev_was_num) ==
    LET token == peek(p)
    IN  IF ~IsSome(token) \/ token.kind = "CloseSquareBracket"
        THEN Done(p, Ok(nums))
        ELSE IF token.kind = "Number"
        THEN IF prev_was_num
             THEN Done(p, Err(PErr("expected ',' or ']': found number", token.n, "")))
             ELSE IF token.n >= 1000
             THEN Done(p, Err(PErr("invalid number: too large", token.n, "")))
             ELSE number_list_loop_any_comma(consume(p), Append(nums, token.n), TRUE)
        ELSE IF token.kind = "Comma"
        THEN number_list_loop_any_comma(consume(p), nums, FALSE)
        ELSE Done(p, Err(PErr("expected number, ',', or ']': found",
                              token.n, token.kind)))

\* The loop of number_list: it is left at the closing bracket or at the end
\* of the tokens, and returns from number_list on any error.
RECURSIVE number_list_loop(_, _, _)
number_list_loop(p, nums, prev_was_num) ==
    LET token == peek(p)
    IN  IF ~IsSome(token) \/ token.kind = "CloseSquareBracket"
        THEN Done(p, Ok(nums))
        ELSE IF token.kind = "Number"
        THEN IF prev_was_num
             THEN Done(p, Err(PErr("expected ',' or ']': found number", token.n, "")))
             ELSE IF token.n >= 1000
             THEN Done(p, Err(PErr("invalid number: too large", token.n, "")))
             ELSE number_list_loop(consume(p), Append(nums, token.n), TRUE)
        ELSE IF token.kind = "Comma"
        THEN IF ~prev_was_num
             THEN Done(p, Err(PErr("unexpected ','", 0, "")))
             ELSE number_list_loop(consume(p), nums, FALSE)
        ELSE Done(p, Err(PErr("expected number, ',', or ']': found",
                              token.n, token.kind)))

number_list(p) ==
    LET open == check_next(p, "OpenSquareBracket")
    IN  IF IsErr(open.ret)
        THEN open
        ELSE LET l == number_list_loop(open.p, <<>>, FALSE)
             IN  IF IsErr(l.ret)
                 THEN l
                 ELSE LET close == check_next(l.p, "CloseSquareBracket")
                      IN  IF IsErr(close.ret)
                          THEN close
                          ELSE Done(close.p, l.ret)

lnc_test(p, name) ==
    LET inputs == number_list(p)
    IN  IF IsErr(inputs.ret)
        THEN inputs
        ELSE LET outputs == number_list(inputs.p)
             IN  IF IsErr(outputs.ret)
                 THEN outputs
                 ELSE LET nl == check_newline(outputs.p)
                      IN  IF IsErr(nl.ret)
                          THEN nl
                          ELSE Done([nl.p EXCEPT !.info.tests =
                                        Append(@, LNCTest(name, inputs.ret.val,
                                                          outputs.ret.val))],
                                    Ok(<<>>))

\* HashMap::insert
\* An insert that keeps the entry a key already has (C26 must not hold of
\* it).
insert_if_absent(map, k, v) ==
    [l \in DOMAIN map \cup {k} |-> IF l \in DOMAIN map THEN map[l] ELSE v]

\* HashMap::insert
insert(map, k, v) == [l \in DOMAIN map \cup {k} |-> IF l = k THEN v ELSE map[l]]

\* The match of make_instructions on a consumed token other than Eof.
parse_token(p, token) ==
    CASE token.kind = "LabelDef" ->
            Done([p EXCEPT !.info.label_map = insert(@, token.s, p.paddr)], Ok(<<>>))
      [] token.kind \in AddrMnemonics -> ins_with_addr(p, token)
      [] token.kind \in NoAddrMnemonics -> ins_without_addr(p, token)
      [] token.kind = "Data" -> data(p)
      [] token.kind = "NewLine" -> Done(p, Ok(<<>>))
      [] token.kind = "Number" ->
            Done(p, Err(PErr("found number instead of instruction/label def",
                             token.n, "")))
      [] token.kind = "Label" ->
            Done(p, Err(PErr("found label instead of instruction/label def",
                             0, token.s)))
      [] token.kind = "TestName" -> lnc_test(p, token.s)
      [] token.kind = "OpenSquareBracket" ->
            Done(p, Err(PErr("unexpected bracket '['", 0, "")))
      [] token.kind = "CloseSquareBracket" ->
            Done(p, Err(PErr("unexpected bracket ']'", 0, "")))
      [] token.kind = "Comma" -> Done(p, Err(PErr("unexpected comma ','", 0, "")))

\* The loop of make_instructions is left when the tokens end or at Eof.
AtEnd(p) == IF IsSome(peek(p)) THEN peek(p).kind = "Eof" ELSE TRUE

\* An iteration that matches the next token without consuming it (C32 must
\* not hold of it).
statement_peeking(p) ==
    LET token == peek(p)
        res == parse_token(p, token)
    IN  IF IsErr(res.ret)
        THEN sync(add_err_msg(res.p, token.line, res.ret.err))
        ELSE res.p

\* One iteration of the loop of make_instructions: the consumed token is
\* matched, and an error is recorded and followed by sync.
statement(p) ==
    LET token == peek(p)
        res == parse_token(consume(p), token)
    IN  IF IsErr(res.ret)
        THEN sync(add_err_msg(res.p, token.line, res.ret.err))
        ELSE res.p

\* What make_instructions returns once its loop is left.
make_instructions_return(p) ==
    IF p.errors = <<>> THEN Ok(p.info) ELSE Err([info |-> p.info, errors |-> p.errors])

\* ---------------------------------------------------------------- lexer
\* A line of source is a string; a character is a string of length one.
Digits == {"0", "1", "2", "3", "4", "5", "6", "7", "8", "9"}
Lowercase ==
    {"a", "b", "c", "d", "e", "f", "g", "h", "i", "j", "k", "l", "m",
     "n", "o", "p", "q", "r", "s", "t", "u", "v", "w", "x", "y", "z"}
Uppercase ==
    {"A", "B", "C", "D", "E", "F", "G", "H", "I", "J", "K", "L", "M",
     "N", "O", "P", "Q", "R", "S", "T", "U", "V", "W", "X", "Y", "Z"}
\* The no-break space U+00A0, the character of the model outside ASCII: it
\* is White_Space and two bytes long in UTF-8.
Nbsp == " "
\* char::is_ascii_alphabetic, char::is_whitespace
Alphabetic == Lowercase \cup Uppercase
Whitespace == {" ", "\t", "\r", Nbsp}
\* |ch| ch.is_ascii_alphanumeric() || *ch == '_'
WordChars == Alphabetic \cup Digits \cup {"_"}

DigitValue ==
    "0" :> 0 @@ "1" :> 1 @@ "2" :> 2 @@ "3" :> 3 @@ "4" :> 4
    @@ "5" :> 5 @@ "6" :> 6 @@ "7" :> 7 @@ "8" :> 8 @@ "9" :> 9

\* str::parse::<usize> of a run of digits (the literals of the model are
\* far below usize::MAX, where it fails).
RECURSIVE parse_usize(_, _)
parse_usize(digits, len) ==
    IF len = 0
    THEN 0
    ELSE 10 * parse_usize(digits, len - 1) + DigitValue[SubSeq(digits, len, len)]

\* None of Option<char>.
NoChar == ""

Lexer_new(line, src) ==
    [source |-> src, tokens |-> <<>>, start |-> 0, pos |-> 0, line |-> line]

make_err_msg(lx, text, s) ==
    [msg |-> "error @ line", line |-> lx.line, e |-> PErr(text, 0, s)]

\* The character at 0-based index i of a line, if there is one.
CharAt(src, i) == IF i < Len(src) THEN SubSeq(src, i + 1, i + 1) ELSE NoChar

\* it.peek(): the character behind the pos characters consumed so far.
Lexer_peek(lx) == CharAt(lx.source, lx.pos)

\* consume: pos += 1, also at the end of the line.
Lexer_consume(lx) == [lx EXCEPT !.pos = @ + 1]

\* char::len_utf8
len_utf8(ch) == IF ch = Nbsp THEN 2 ELSE 1

\* The byte offset of the end of the first k characters of a string.
RECURSIVE byte_offset(_, _)
byte_offset(src, k) ==
    IF k = 0 THEN 0 ELSE byte_offset(src, k - 1) + len_utf8(SubSeq(src, k, k))

\* str::is_char_boundary
is_char_boundary(src, b) == \E k \in 0..Len(src) : byte_offset(src, k) = b

\* src[a..b] of a &str, a <= b: the range is in bytes, and the indexing
\* panics unless both ends are character boundaries.
NotCharBoundary == [ok |-> FALSE, panic |-> "byte index is not a char boundary"]
slice(src, a, b) ==
    IF is_char_boundary(src, a) /\ is_char_boundary(src, b)
    THEN LET i == CHOOSE k \in 0..Len(src) : byte_offset(src, k) = a
             j == CHOOSE k \in 0..Len(src) : byte_offset(src, k) = b
         IN  Ok(SubSeq(src, i + 1, j))
    ELSE NotCharBoundary

\* lexeme: start and pos count characters, the slice is taken in bytes.
lexeme(lx) == slice(lx.source, lx.start, lx.pos)

add_token(lx, kind, n, s) ==
    [lx EXCEPT !.tokens = Append(@, Token(kind, n, s, lx.line))]

\* The loop of consume_while from position pos: where it stops.
RECURSIVE consume_while_from(_, _, _)
consume_while_from(src, pos, condition) ==
    IF CharAt(src, pos) \in condition
    THEN consume_while_from(src, pos + 1, condition)
    ELSE pos

consume_while(lx, condition) ==
    [lx EXCEPT !.pos = consume_while_from(lx.source, lx.pos, condition)]

\* What a method of the Lexer leaves: the lexer and the returned value.
Scanned(lx, ret) == [lx |-> lx, ret |-> ret]

\* str::parse::<usize> succeeds on a non-empty run of digits.
IsDigits(w) == Len(w) > 0 /\ \A i \in 1..Len(w) : SubSeq(w, i, i) \in Digits

number(lx) ==
    LET l == consume_while(lx, Digits)
        w == lexeme(l)
    IN  IF IsPanic(w)
        THEN Scanned(l, w)
        ELSE IF IsDigits(w.val)
        THEN Scanned(add_token(l, "Number", parse_usize(w.val, Len(w.val)), ""), Ok(<<>>))
        ELSE Scanned(l, Err(make_err_msg(l, "invalid number literal", w.val)))

Keywords ==
    "lda" :> "Load" @@ "sto" :> "Store" @@ "add" :> "Add" @@ "sub" :> "Subtract"
    @@ "inp" :> "Input" @@ "out" :> "Output" @@ "hlt" :> "Halt"
    @@ "brz" :> "BranchZero" @@ "brp" :> "BranchPositive"
    @@ "bra" :> "BranchAlways" @@ "dat" :> "Data"

\* map_kw: Some(kind) or None.
map_kw(word) == IF word \in DOMAIN Keywords THEN [some |-> Keywords[word]] ELSE None

kw_or_label(lx) ==
    LET l == consume_while(lx, WordChars)
        w == lexeme(l)
        is_label_def == Lexer_peek(l) = ":"
    IN  IF IsPanic(w)
        THEN Scanned(l, w)
        ELSE IF IsSome(map_kw(w.val))
        THEN IF is_label_def
             THEN Scanned(l, Err(make_err_msg(l, "cannot use keyword as label name",
                                              w.val)))
             ELSE Scanned(add_token(l, map_kw(w.val).some, 0, ""), Ok(<<>>))
        ELSE IF is_label_def
        THEN Scanned(Lexer_consume(add_token(l, "LabelDef", 0, w.val)), Ok(<<>>))
        ELSE Scanned(add_token(l, "Label", 0, w.val), Ok(<<>>))

\* test_name: its two errors carry no line.
test_name(lx) ==
    LET ch == Lexer_peek(lx)
        l == Lexer_consume(lx)
    IN  IF ch = NoChar
        THEN Scanned(l, Err(PErr("tests must have a name", 0, "")))
        ELSE IF ch \notin Alphabetic \cup {"_"}
        THEN Scanned(l, Err(PErr("unexpected character: test names must start with a letter or '_'",
                                 0, ch)))
        ELSE LET named == [consume_while(l, WordChars) EXCEPT !.start = @ + 1]
                 w == lexeme(named)
             IN  IF IsPanic(w)
                 THEN Scanned(named, w)
                 ELSE Scanned(add_token(named, "TestName", 0, w.val), Ok(<<>>))

\* The match of make_tokens on a consumed character other than ';'.
lex_char(lx, ch) ==
    CASE ch = "." -> test_name(lx)
      [] ch = "[" -> Scanned(add_token(lx, "OpenSquareBracket", 0, ""), Ok(<<>>))
      [] ch = "]" -> Scanned(add_token(lx, "CloseSquareBracket", 0, ""), Ok(<<>>))
      [] ch = "," -> Scanned(add_token(lx, "Comma", 0, ""), Ok(<<>>))
      [] ch \in Whitespace -> Scanned(lx, Ok(<<>>))
      [] ch \in Digits -> number(lx)
      [] ch \in Alphabetic -> kw_or_label(lx)
      [] OTHER -> Scanned(lx, Err(make_err_msg(lx, "unexpected character", ch)))

\* The loop of make_tokens is left at the end of the line and at ';'.
AtLineEnd(lx) == Lexer_peek(lx) \in {NoChar, ";"}

\* One iteration of the loop of make_tokens on a character other than ';':
\* the match, then start = pos; an error returns from make_tokens.
make_tokens_step(lx) ==
    LET r == lex_char(Lexer_consume(lx), Lexer_peek(lx))
    IN  IF IsOk(r.ret) THEN Scanned([r.lx EXCEPT !.start = r.lx.pos], r.ret) ELSE r

\* make_tokens after its loop: the NewLine token closes the line.
make_tokens_return(lx) == Ok(add_token(Lexer_consume(lx), "NewLine", 0, "").tokens)

\* The for loop of tokenize at line i (0-based): the Lexer of that line, or
\* the end of the loop.
NoMoreLines == [done |-> TRUE]
IsLexer(lx) == "source" \in DOMAIN lx
next_line(src, i) == IF i < Len(src) THEN Lexer_new(i, src[i + 1]) ELSE NoMoreLines

\* tokenize after its loop: the Eof token is added only when no line had an
\* error.
tokenize_return(src, toks, errors) ==
    IF errors = <<>>
    THEN Ok(Append(toks, Token("Eof", 0, "", Len(src))))
    ELSE Err([tokens |-> toks, errors |-> errors])

\* --------------------------------------------------------- make_program
\* make_program that keeps the assembly error only (C17 must not hold of
\* it).
make_program_return_last_error(errors, pi, a) ==
    IF IsErr(a)
    THEN Err(<<a.err>>)
    ELSE IF errors # <<>>
    THEN Err(errors)
    ELSE Ok([mem |-> a.val, parse_info |-> pi])

\* make_program from the call of assemble on: errors holds the error lines
\* pushed so far, pi is the ParseInfo, a what assemble returned;
\* errors.join("\n") is the sequence of the error lines.
make_program_return(errors, pi, a) ==
    IF IsErr(a)
    THEN Err(Append(errors, a.err))
    ELSE IF errors # <<>>
    THEN Err(errors)
    ELSE Ok([mem |-> a.val, parse_info |-> pi])

\* ------------------------------------------------------------- ports
\* LNCInput::new without its range check (C3 must not hold of it).
LNCInput_new_unchecked(num) == Ok(num)

LNCInput_new(num) ==
    IF num < ValueLimit THEN Ok(num) ELSE Err(Msg("None", <<>>))

\* QueueInput::new: every number must pass LNCInput::new.
QueueInput_new(nums) ==
    LET bad == {i \in 1..Len(nums) : ~LNCInput_new(nums[i]).ok}
    IN  IF bad # {}
        THEN Err(Msg("error: input number is too large",
                     <<nums[CHOOSE i \in bad : \A j \in bad : i <= j]>>))
        ELSE Ok([kind |-> "QueueInput", queue |-> nums])

\* A take that pops the back of the queue (C8 must not hold of it).
QueueInput_take_back(inp) ==
    IF inp.queue # <<>>
    THEN [input |-> [inp EXCEPT !.queue = SubSeq(@, 1, Len(@) - 1)],
          ret |-> Ok(inp.queue[Len(inp.queue)])]
    ELSE [input |-> inp, ret |-> Err(Msg("error: input queue is empty!", <<>>))]

\* QueueInput::take: pop_front, or the error of an empty queue.
QueueInput_take(inp) ==
    IF inp.queue # <<>>
    THEN [input |-> [inp EXCEPT !.queue = Tail(@)], ret |-> Ok(Head(inp.queue))]
    ELSE [input |-> inp, ret |-> Err(Msg("error: input queue is empty!", <<>>))]

StackOutput_default == [kind |-> "StackOutput", stack |-> <<>>]

StackOutput_send(o, val) == [o EXCEPT !.stack = Append(@, val)]

\* CLIInput: stdin holds the lines still to be read, a line being the number
\* typed or -1 for text that is no number; history the values accepted.
CLIInput_default(lines) == [kind |-> "CLIInput", stdin |-> lines, history |-> <<>>]

\* CLIInput::take: one line is read (none at the end of input) and parsed;
\* a number that passes LNCInput::new is recorded and returned.
CLIInput_take(i) ==
    IF i.stdin = <<>>
    THEN [input |-> i, ret |-> Err(Msg("Error with input", <<>>))]
    ELSE LET num == Head(i.stdin)
             i1 == [i EXCEPT !.stdin = Tail(@)]
         IN  IF num < 0
             THEN [input |-> i1, ret |-> Err(Msg("Error with input", <<>>))]
             ELSE IF LNCInput_new(num).ok
             THEN [input |-> [i1 EXCEPT !.history = Append(@, num)], ret |-> Ok(num)]
             ELSE [input |-> i1, ret |-> Err(Msg("Error: input too large", <<>>))]

CLIOutput_default == [kind |-> "CLIOutput", history |-> <<>>]

\* A send that puts the value in front (C9 must not hold of it).
CLIOutput_send_front(o, val) == [o EXCEPT !.history = <<val>> \o @]

CLIOutput_send(o, val) == [o EXCEPT !.history = Append(@, val)]

\* The calls through the Input and Output traits.
take(i) ==
    IF i.kind = "QueueInput" THEN QueueInput_take(i) ELSE CLIInput_take(i)

send(o, val) ==
    IF o.kind = "StackOutput" THEN StackOutput_send(o, val) ELSE CLIOutput_send(o, val)

\* CLILogger::log, keeping the messages of the current step() call.
logmsg(s, text, args) == [s EXCEPT !.log = Append(@, Msg(text, args))]

\* ------------------------------------------------------- interpreter
\* Interpreter::new
Interpreter_new(m, inp, out) ==
    [mem |-> m, pc |-> 0, acc |-> 0, neg_flag |-> FALSE, halted |-> FALSE,
     input |-> inp, output |-> out, log |-> <<>>]

\* An lda that also clears neg_flag (C24 must not hold of it).
lda_clearing_neg_flag(s, addr) ==
    [logmsg(s, "--> lda", <<addr>>) EXCEPT !.acc = s.mem[addr], !.neg_flag = FALSE]

lda(s, addr) ==
    [logmsg(s, "--> lda", <<addr>>) EXCEPT !.acc = s.mem[addr]]

\* A sto that moves the accumulator: it is 0 afterwards (C25 must not hold
\* of it).
sto_moving(s, addr) ==
    [logmsg(s, "--> sto", <<addr>>) EXCEPT !.mem[addr] = s.acc, !.acc = 0]

sto(s, addr) ==
    [logmsg(s, "--> sto", <<addr>>) EXCEPT !.mem[addr] = s.acc]

\* An inp that clears the accumulator before it asks for the value (C29
\* must not hold of it).
inp_clearing_first(s) ==
    LET s1 == logmsg(s, "--> inp", <<>>)
        t == take(s1.input)
        s2 == [s1 EXCEPT !.input = t.input, !.acc = 0]
    IN  IF t.ret.ok
        THEN [st |-> [logmsg(s2, "--> was input value", <<t.ret.val>>)
                        EXCEPT !.acc = t.ret.val],
              ret |-> Ok(<<>>)]
        ELSE [st |-> s2, ret |-> t.ret]

\* inp: the value taken from the input source becomes acc; its failure is
\* propagated by `?` after the source was consulted.
inp(s) ==
    LET s1 == logmsg(s, "--> inp", <<>>)
        t == take(s1.input)
        s2 == [s1 EXCEPT !.input = t.input]
    IN  IF t.ret.ok
        THEN [st |-> [logmsg(s2, "--> was input value", <<t.ret.val>>)
                        EXCEPT !.acc = t.ret.val],
              ret |-> Ok(<<>>)]
        ELSE [st |-> s2, ret |-> t.ret]

\* An out that sends the accumulator twice (C30 must not hold of it).
out_twice(s) ==
    LET s1 == logmsg(logmsg(s, "--> out", <<>>), "--> was output value", <<s.acc>>)
    IN  [s1 EXCEPT !.output = send(send(s.output, s.acc), s.acc)]

out(s) ==
    LET s1 == logmsg(logmsg(s, "--> out", <<>>), "--> was output value", <<s.acc>>)
    IN  [s1 EXCEPT !.output = send(s.output, s.acc)]

\* A hlt that leaves the interpreter running (C31 must not hold of it).
hlt_running_on(s) ==
    logmsg(s, "--> hlt", <<>>)

hlt(s) ==
    [logmsg(s, "--> hlt", <<>>) EXCEPT !.halted = TRUE]

\* An add that stores the unwrapped sum (C4 must not hold of it).
add_unwrapped(s, addr) ==
    [logmsg(s, "--> add", <<addr>>)
        EXCEPT !.acc = s.acc + s.mem[addr], !.neg_flag = FALSE]

add(s, addr) ==
    LET s1 == logmsg(s, "--> add", <<addr>>)
        new_val == s.acc + s.mem[addr]
        s2 == IF new_val >= 1000
              THEN logmsg(s1, "overflow", <<s.acc, s.mem[addr], new_val>>)
              ELSE s1
    IN  [s2 EXCEPT !.acc = new_val % 1000, !.neg_flag = FALSE]

\* A sub that also sets neg_flag on a zero difference (C5 must not hold of it).
sub_neg_on_zero(s, addr) ==
    LET new_val == s.acc - s.mem[addr]
    IN  [logmsg(s, "--> sub", <<addr>>)
            EXCEPT !.neg_flag = (new_val <= 0), !.acc = (new_val + 1000) % 1000]

sub(s, addr) ==
    LET s1 == logmsg(s, "--> sub", <<addr>>)
        new_val == s.acc - s.mem[addr]
        neg == new_val < 0
        s2 == IF neg
              THEN logmsg(logmsg(s1, "underflow", <<s.acc, s.mem[addr], new_val>>),
                          "neg_flag set", <<>>)
              ELSE s1
    IN  [s2 EXCEPT !.neg_flag = neg, !.acc = (new_val + 1000) % 1000]

\* A brz that branches whatever the accumulator (C23 must not hold of it).
brz_always(s, addr) ==
    [logmsg(s, "--> brz", <<addr>>) EXCEPT !.pc = addr]

brz(s, addr) ==
    LET s1 == logmsg(s, "--> brz", <<addr>>)
    IN  IF s.acc = 0 THEN [s1 EXCEPT !.pc = addr] ELSE s1

\* A brp that branches on a strictly positive accumulator only (C6 must not
\* hold of it).
brp_strict(s, addr) ==
    LET s1 == logmsg(s, "--> brp", <<addr>>)
    IN  IF ~s.neg_flag /\ s.acc # 0 THEN [s1 EXCEPT !.pc = addr] ELSE s1

brp(s, addr) ==
    LET s1 == logmsg(s, "--> brp", <<addr>>)
    IN  IF ~s.neg_flag THEN [s1 EXCEPT !.pc = addr] ELSE s1

\* A bra that halts when it branches to its own address (C28 must not hold
\* of it).
bra_halting_on_self(s, addr) ==
    [logmsg(s, "--> bra", <<addr>>) EXCEPT !.pc = addr, !.halted = (addr + 1 = s.pc)]

bra(s, addr) ==
    [logmsg(s, "--> bra", <<addr>>) EXCEPT !.pc = addr]

\* An undefined instruction that also halts (C7 must not hold of it).
undefined_halts(s, first_digit, op) ==
    [st |-> [s EXCEPT !.halted = TRUE],
     ret |-> Err(Msg("undefined instruction", <<first_digit, op>>))]

undefined(s, first_digit, op) ==
    [st |-> s, ret |-> Err(Msg("undefined instruction", <<first_digit, op>>))]

\* The match on first_digit, after the fetch and pc += 1.
dispatch(s, first_digit, op) ==
    CASE first_digit = 5 -> [st |-> lda(s, op), ret |-> Ok(<<>>)]
      [] first_digit = 3 -> [st |-> sto(s, op), ret |-> Ok(<<>>)]
      [] first_digit = 1 -> [st |-> add(s, op), ret |-> Ok(<<>>)]
      [] first_digit = 2 -> [st |-> sub(s, op), ret |-> Ok(<<>>)]
      [] first_digit = 9 ->
            CASE op = 1 -> inp(s)
              [] op = 2 -> [st |-> out(s), ret |-> Ok(<<>>)]
              [] OTHER -> undefined(s, first_digit, op)
      [] first_digit = 0 ->
            CASE op = 0 -> [st |-> hlt(s), ret |-> Ok(<<>>)]
              [] OTHER -> undefined(s, first_digit, op)
      [] first_digit = 7 -> [st |-> brz(s, op), ret |-> Ok(<<>>)]
      [] first_digit = 8 -> [st |-> brp(s, op), ret |-> Ok(<<>>)]
      [] first_digit = 6 -> [st |-> bra(s, op), ret |-> Ok(<<>>)]
      [] OTHER -> undefined(s, first_digit, op)

\* A step() on a halted interpreter: one log message and Ok.
step_halted(s) ==
    [st |-> logmsg(s, "Cannot step: interpreter is halted", <<>>), ret |-> Ok(<<>>)]

\* The indexing self.mem[self.pc] panics when pc is outside the array; the
\* call never returns and nothing was logged or changed.
Panic == [ok |-> FALSE, panic |-> "index out of bounds"]

\* A step without the early return of a halted interpreter (C1 must not hold
\* of it).
step_ignoring_halted(s) ==
    IF s.pc >= MemSize
    THEN [st |-> s, ret |-> Panic]
    ELSE LET code == s.mem[s.pc]
             s1 == logmsg(s, "Fetched instruction", <<code, s.pc>>)
             s2 == [s1 EXCEPT !.pc = s.pc + 1]
         IN  dispatch(s2, code \div 100, code % 100)

\* Interpreter::step, on the interpreter s whose log was emptied for this call.
step(s) ==
    IF s.halted
    THEN step_halted(s)
    ELSE IF s.pc >= MemSize
    THEN [st |-> s, ret |-> Panic]
    ELSE LET code == s.mem[s.pc]
             s1 == logmsg(s, "Fetched instruction", <<code, s.pc>>)
             s2 == [s1 EXCEPT !.pc = s.pc + 1]
         IN  dispatch(s2, code \div 100, code % 100)

\* ------------------------------------------------------ the programs
Seqs(S, n) == UNION {[1..k -> S] : k \in 0..n}

\* Scenario A, the countdown: inp / loop: out / sub one / sto count /
\* brp loop / hlt / one: dat 1 / count: dat 0.
ScenarioA ==
    <<Input, Output, Subtract(Symbolic("one")), Store(Symbolic("count")),
      BranchPositive(Symbolic("loop")), Halt, Data(1), Data(0)>>

ScenarioALabels ==
    [l \in {"loop", "one", "count"} |->
        CASE l = "loop" -> 1 [] l = "one" -> 6 [] l = "count" -> 7]

\* lda 0 / sto 99 / bra 99: the program stores its own first cell in the
\* last cell of the memory and jumps there.
StoreTop == <<Load(Numeric(0)), Store(Numeric(99)), BranchAlways(Numeric(99))>>

\* inp / sto 9 / inp / sub 9 / brp 7 / add 9 / add 9 / out / bra 0
Arith ==
    <<Input, Store(Numeric(9)), Input, Subtract(Numeric(9)), BranchPositive(Numeric(7)),
      Add(Numeric(9)), Add(Numeric(9)), Output, BranchAlways(Numeric(0))>>

\* sub 0 / lda 99 / brp 0: an underflow, then the accumulator is reloaded
\* with 0 before the branch.
SubLoadBrp ==
    <<Subtract(Numeric(0)), Load(Numeric(99)), BranchPositive(Numeric(0))>>

GenAddrs == {0, 99}
GenData == {50, 450, 950}

Alphabet ==
    UNION {{Load(Numeric(a)), Store(Numeric(a)), Add(Numeric(a)), Subtract(Numeric(a)),
            BranchZero(Numeric(a)), BranchPositive(Numeric(a)), BranchAlways(Numeric(a))}
           : a \in GenAddrs}
    \cup {Input, Output, Halt} \cup {Data(d) : d \in GenData}

InputVals == {999}
\* <<1000>> is refused by QueueInput::new.
InputSeqs == Seqs(InputVals, MaxInputs) \cup {<<3>>, <<5, 7>>, <<1000>>}

\* The parse outputs the interpreter is started on: every program of at most
\* MaxLen instructions over Alphabet, and the named programs.
ParseInfos(tests) ==
    {ParseInfo(p, NoLabels, tests) :
        p \in Seqs(Alphabet, MaxLen) \cup {StoreTop, Arith, SubLoadBrp}}
    \cup {ParseInfo(ScenarioA, ScenarioALabels, tests)}

\* ------------------------------------------------------------- state
Self ==
    [mem |-> mem, pc |-> pc, acc |-> acc, neg_flag |-> neg_flag, halted |-> halted,
     input |-> input, output |-> output, log |-> log]

SetSelf(s) ==
    /\ mem' = s.mem
    /\ pc' = s.pc
    /\ acc' = s.acc
    /\ neg_flag' = s.neg_flag
    /\ halted' = s.halted
    /\ input' = s.input
    /\ output' = s.output
    /\ log' = s.log

NotCalled == [none |-> TRUE]

\* The front end has finished before an interpreter exists: its working
\* state is gone.
FrontIdle ==
    /\ source = <<>>
    /\ lexer = NotCalled
    /\ lex_errors = <<>>
    /\ tokens = <<>>
    /\ parser = NotCalled
    /\ parsed = NotCalled
    /\ assembled = NotCalled
    /\ made = NotCalled

\* The memory image of the program: program.mem of make_program.
Image == assemble(parse_info).val

\* make_program succeeded on pi, and a fresh interpreter over its image with a
\* queue of the inputs of the test and a capturing output.
Constructed(pi, i, o) ==
    /\ parse_info = pi
    /\ assemble(pi).ok
    /\ LET s == Interpreter_new(assemble(pi).val, i, o)
       IN  /\ mem = s.mem
           /\ pc = s.pc
           /\ acc = s.acc
           /\ neg_flag = s.neg_flag
           /\ halted = s.halted
           /\ input = s.input
           /\ output = s.output
           /\ log = s.log
    /\ result = NotCalled
    /\ ins_count = 0
    /\ results = <<>>
    /\ table = <<>>
    /\ FrontIdle

Init ==
    /\ \E inputs \in InputSeqs :
         \E pi \in ParseInfos(<<LNCTest("t", inputs, <<>>)>>) :
            /\ QueueInput_new(inputs).ok
            /\ Constructed(pi, QueueInput_new(inputs).val, StackOutput_default)
    /\ cpc = "api"

\* One call of step() by any caller, also on a halted interpreter and after
\* a call that returned an error; after a panic there is no interpreter left.
Bounded == ins_count < MaxSteps

\* ins_count counts, as the loops of cli.rs do, the calls on a running
\* interpreter that returned Ok.
Step ==
    /\ Bounded
    /\ ~IsPanic(result)
    /\ LET r == step([Self EXCEPT !.log = <<>>])
       IN  /\ SetSelf(r.st)
           /\ result' = r.ret
           /\ ins_count' = IF ~halted /\ IsOk(r.ret) THEN ins_count + 1 ELSE ins_count
    /\ UNCHANGED <<parse_info, cpc, results>>
    /\ UNCHANGED front
    /\ UNCHANGED table

Next == Step

Spec == Init /\ [][Next]_vars

\* ------------------------------------------------------------- run
\* The largest number typed to the countdown program.
MaxN == 5

StdinSeqs == {<<n>> : n \in 0..MaxN} \cup {<<>>, <<-1>>, <<1000>>, <<5, 7>>}

\* The programs run is started on: the named ones and every program of one
\* instruction.
RunParseInfos ==
    {ParseInfo(p, NoLabels, <<>>) : p \in Seqs(Alphabet, 1) \cup {StoreTop, Arith}}
    \cup {ParseInfo(ScenarioA, ScenarioALabels, <<>>)}

\* run, after make_program and the construction of the interpreter over
\* the interactive ports.
InitRun ==
    /\ \E lines \in StdinSeqs :
         \E pi \in RunParseInfos :
            Constructed(pi, CLIInput_default(lines), CLIOutput_default)
    /\ cpc = "run"

\* One iteration of run's loop: step()?, then ins_count += 1.
RunLoop ==
    /\ cpc = "run"
    /\ ~halted
    /\ Bounded
    /\ ~IsPanic(result)
    /\ LET r == step([Self EXCEPT !.log = <<>>])
       IN  /\ SetSelf(r.st)
           /\ result' = r.ret
           /\ ins_count' = IF IsOk(r.ret) THEN ins_count + 1 ELSE ins_count
           /\ cpc' = IF IsErr(r.ret) THEN "returned" ELSE cpc
    /\ UNCHANGED <<parse_info, results>>
    /\ UNCHANGED front
    /\ UNCHANGED table

\* The loop is left on is_halted(): the summary is printed and run returns.
RunSummary ==
    /\ cpc = "run"
    /\ halted
    /\ cpc' = "returned"
    /\ UNCHANGED <<parse_info, mem, pc, acc, neg_flag, halted, input, output, log,
                   result, ins_count, results>>
    /\ UNCHANGED front
    /\ UNCHANGED table

NextRun == RunLoop \/ RunSummary

\* run is sequential code: it takes its next step as long as it has one.
SpecRun == InitRun /\ [][NextRun]_vars /\ WF_vars(NextRun)

\* ------------------------------------------------------- run_tests
\* Most tests declared in one source.
MaxTests == 2

\* TestResult and LNCTestInfo::new
Passed == [kind |-> "Passed"]
Failed(m) == [kind |-> "Failed", msg |-> m]

LNCTestInfo_new(test, actual_output, n, r) ==
    [name |-> test.name, input |-> test.inputs, expected_output |-> test.outputs,
     actual_output |-> actual_output, ins_count |-> n, result |-> r]

\* run_test after its loop, with the outputs compared before the inputs
\* (C10 must not hold of it).
classify_outputs_first(i, o, test) ==
    IF o.stack # test.outputs
    THEN Failed(Msg("incorrect outputs", <<>>))
    ELSE IF i.queue # <<>>
    THEN Failed(Msg("unused inputs", i.queue))
    ELSE Passed

\* run_test after its loop: unused inputs, then incorrect outputs, then ok.
classify(i, o, test) ==
    IF i.queue # <<>>
    THEN Failed(Msg("unused inputs", i.queue))
    ELSE IF o.stack # test.outputs
    THEN Failed(Msg("incorrect outputs", <<>>))
    ELSE Passed

\* inp / out / dat 450: one value is echoed, then the undefined cell 450.
EchoThenUndefined == <<Input, Output, Data(450)>>

\* inp / out / hlt
Echo == <<Input, Output, Halt>>

\* lda 0 / out: no hlt, the program runs into the zero cell behind it.
LoadOut == <<Load(Numeric(0)), Output>>

\* 99 instructions, lda 0 / add 1 / out over and over: the longest program
\* that assembles, without a hlt, a Store or a branch.
Straight99 ==
    [i \in 1..(MaxInstructions - 1) |->
        CASE i % 3 = 1 -> Load(Numeric(0))
          [] i % 3 = 2 -> Add(Numeric(1))
          [] OTHER -> Output]

TestParseInfos(tests) ==
    {ParseInfo(p, NoLabels, tests) :
        p \in {EchoThenUndefined, Echo, StoreTop, Arith, LoadOut}}
    \cup (IF Len(tests) <= 1 THEN {ParseInfo(Straight99, NoLabels, tests)} ELSE {})
    \cup {ParseInfo(ScenarioA, ScenarioALabels, tests)}

T1 == LNCTest("t1", <<5>>, <<5, 4, 3, 2, 1, 0>>)

TestCases ==
    {T1,
     LNCTest("t2", <<2>>, <<2, 1, 0>>),
     LNCTest("t3", <<2>>, <<2, 1>>),
     LNCTest("t4", <<2, 7>>, <<2, 1, 0>>),
     LNCTest("t5", <<2, 7>>, <<2>>),
     LNCTest("t6", <<>>, <<>>)}

\* The test run_tests' for loop is at.
Test == parse_info.tests[Len(results) + 1]

\* run_tests, after make_program: mem is the image, no test has run.
InitTests ==
    /\ \E tests \in Seqs(TestCases, MaxTests) :
         \E pi \in TestParseInfos(tests) :
            Constructed(pi, QueueInput_new(<<>>).val, StackOutput_default)
    /\ cpc = "tests"

\* The for loop starts run_test on the next test: the queue of its inputs,
\* an empty stack and a new interpreter over a copy of the image.
RunTestNew ==
    /\ cpc = "tests"
    /\ Len(results) < Len(parse_info.tests)
    /\ LET q == QueueInput_new(Test.inputs)
       IN  IF q.ok
           THEN /\ SetSelf(Interpreter_new(Image, q.val, StackOutput_default))
                /\ cpc' = "test"
           ELSE /\ cpc' = "returned"
                /\ UNCHANGED <<mem, pc, acc, neg_flag, halted, input, output, log>>
    /\ result' = NotCalled
    /\ ins_count' = 0
    /\ UNCHANGED <<parse_info, results>>
    /\ UNCHANGED front
    /\ UNCHANGED table

\* The image has no Store and no branch: no cell of class 3, 6, 7 or 8.
Straight ==
    \E image \in {Image} :
        \A a \in 0..(MemSize - 1) : image[a] \div 100 \notin {3, 6, 7, 8}

\* The steps of a test that are looked at: MaxSteps, and one more than the
\* memory has cells when the program cannot loop.
TestBounded == IF Straight THEN ins_count <= MemSize ELSE Bounded

\* One iteration of run_test's loop: an error of step() ends the test as
\* failed with that error, otherwise ins_count += 1.
RunTestLoop ==
    /\ cpc = "test"
    /\ ~halted
    /\ TestBounded
    /\ ~IsPanic(result)
    /\ LET r == step([Self EXCEPT !.log = <<>>])
       IN  /\ SetSelf(r.st)
           /\ result' = r.ret
           /\ IF IsErr(r.ret)
              THEN /\ results' = Append(results,
                         LNCTestInfo_new(Test, r.st.output.stack, ins_count,
                                         Failed(r.ret.err)))
                   /\ cpc' = "tests"
                   /\ UNCHANGED ins_count
              ELSE /\ ins_count' = IF IsOk(r.ret) THEN ins_count + 1 ELSE ins_count
                   /\ UNCHANGED <<results, cpc>>
    /\ UNCHANGED parse_info
    /\ UNCHANGED front
    /\ UNCHANGED table

\* The loop is left on is_halted(): the test is classified.
RunTestCheck ==
    /\ cpc = "test"
    /\ halted
    /\ results' = Append(results,
            LNCTestInfo_new(Test, output.stack, ins_count, classify(input, output, Test)))
    /\ cpc' = "tests"
    /\ UNCHANGED <<parse_info, mem, pc, acc, neg_flag, halted, input, output, log,
                   result, ins_count>>
    /\ UNCHANGED front
    /\ UNCHANGED table

\* Every test has run: the table is printed and run_tests returns.
RunTestsDone ==
    /\ cpc = "tests"
    /\ Len(results) = Len(parse_info.tests)
    /\ cpc' = "returned"
    /\ UNCHANGED <<parse_info, mem, pc, acc, neg_flag, halted, input, output, log,
                   result, ins_count, results>>
    /\ UNCHANGED front
    /\ UNCHANGED table

NextTests == RunTestNew \/ RunTestLoop \/ RunTestCheck \/ RunTestsDone

SpecTests == InitTests /\ [][NextTests]_vars

\* run_tests is sequential code: it takes its next step as long as it has
\* one.
SpecTestsFair == SpecTests /\ WF_vars(NextTests)

\* ------------------------------------------------------------ assemble
\* Longest generated instruction list handed to assemble.
MaxAsmLen == 2

AsmAddrs == {Numeric(7), Symbolic("x"), Symbolic("y")}

AsmAlphabet ==
    {Load(a) : a \in AsmAddrs} \cup {Store(a) : a \in AsmAddrs}
    \cup {Add(a) : a \in AsmAddrs} \cup {Subtract(a) : a \in AsmAddrs}
    \cup {BranchZero(a) : a \in AsmAddrs} \cup {BranchPositive(a) : a \in AsmAddrs}
    \cup {BranchAlways(a) : a \in AsmAddrs}
    \cup {Input, Output, Halt, Data(123)}

\* n times hlt, and the same with one or two references to a label.
Pad(n) == [i \in 1..n |-> Halt]

LongPrograms ==
    UNION {{Pad(n),
            [Pad(n) EXCEPT ![n] = Load(Symbolic("y"))],
            [Pad(n) EXCEPT ![1] = BranchAlways(Symbolic("x"))],
            [Pad(n) EXCEPT ![2] = Add(Symbolic("y")), ![n] = Store(Symbolic("x"))]}
           : n \in (MaxInstructions - 2)..(MaxInstructions + 1)}

\* The label maps over a program of n instructions: x is its first address,
\* y the address behind its last instruction.
AsmLabelMaps(n) == {NoLabels, "x" :> 0, "x" :> 0 @@ "y" :> n, "y" :> n}

AsmPrograms == Seqs(AsmAlphabet, MaxAsmLen) \cup LongPrograms

\* ParseInfo::new
ParseInfo_new == ParseInfo(<<>>, NoLabels, <<>>)

\* No interpreter exists while the front end works.
BackIdle ==
    /\ mem = <<>>
    /\ pc = 0 /\ acc = 0 /\ neg_flag = FALSE /\ halted = FALSE
    /\ input = NotCalled /\ output = NotCalled
    /\ log = <<>>
    /\ result = NotCalled
    /\ cpc = "front"
    /\ ins_count = 0
    /\ results = <<>>
    /\ table = <<>>

InitAssemble ==
    /\ \E ins \in AsmPrograms :
         \E lm \in AsmLabelMaps(Len(ins)) : parse_info = ParseInfo(ins, lm, <<>>)
    /\ BackIdle
    /\ FrontIdle

\* assemble(&parse_info)
Assemble ==
    /\ assembled = NotCalled
    /\ assembled' = assemble(parse_info)
    /\ UNCHANGED <<back, source, lexer, lex_errors, tokens, parser, parsed, made>>

\* ------------------------------------------------------------ debugger
\* The decimal digits of n.
DigitChar(d) == CHOOSE c \in Digits : DigitValue[c] = d

\* A to_string that keeps the last digit only (C22 must not hold of it).
to_string_last_digit(n) == DigitChar(n % 10)

\* usize::to_string
RECURSIVE to_string(_)
to_string(n) ==
    IF n < 10 THEN DigitChar(n) ELSE to_string(n \div 10) \o DigitChar(n % 10)

RECURSIVE zeros(_)
zeros(k) == IF k <= 0 THEN "" ELSE "0" \o zeros(k - 1)

\* format!("{:0w$}", n): the digits of n behind the zeros that fill width w.
format_zero_padded(n, w) == zeros(w - Len(to_string(n))) \o to_string(n)

\* The mnemonic column of a cell, without its operand when it has none
\* (let mnemonic = match first_digit).
mnemonic(val) ==
    LET first_digit == val \div 100
        op == val % 100
    IN  CASE first_digit = 5 -> "lda " \o format_zero_padded(op, 2)
          [] first_digit = 3 -> "sto " \o format_zero_padded(op, 2)
          [] first_digit = 1 -> "add " \o format_zero_padded(op, 2)
          [] first_digit = 2 -> "sub " \o format_zero_padded(op, 2)
          [] first_digit = 9 ->
                CASE op = 1 -> "inp"
                  [] op = 2 -> "out"
                  [] OTHER -> ""
          [] first_digit = 0 -> IF op = 0 THEN "hlt" ELSE ""
          [] first_digit = 7 -> "brz " \o format_zero_padded(op, 2)
          [] first_digit = 8 -> "brp " \o format_zero_padded(op, 2)
          [] first_digit = 6 -> "bra " \o format_zero_padded(op, 2)
          [] OTHER -> ""

\* The rows of the table: height = 15 addresses around pc.
Height == 15
window(p) ==
    IF p < Height \div 2
    THEN [min |-> 0, max |-> Height - 1]
    ELSE IF p > 99 - Height \div 2
    THEN [min |-> 99 - Height + 1, max |-> 99]
    ELSE [min |-> p - Height \div 2, max |-> p + Height \div 2]

\* The memory table of the cells m with the program counter at p; the label
\* column is left out.
memory_table(m, p) ==
    [i \in 1..(window(p).max - window(p).min + 1) |->
        LET addr == window(p).min + i - 1
        IN  [arrow |-> IF addr = p THEN ">" ELSE "",
             addr |-> format_zero_padded(addr, 2),
             mnemonic |-> mnemonic(m[addr]),
             mem |-> format_zero_padded(m[addr], 3)]]

\* run_debugger on a program that was made: the first memory table, before
\* any step.
ShowMemory ==
    /\ IsOk(assembled)
    /\ table = <<>>
    /\ table' = memory_table(assembled.val, pc)
    /\ UNCHANGED <<parse_info, mem, pc, acc, neg_flag, halted, input, output, log,
                   result, cpc, ins_count, results>>
    /\ UNCHANGED front

NextAssemble == Assemble \/ ShowMemory

SpecAssemble == InitAssemble /\ [][NextAssemble]_vars

\* --------------------------------------------------------------- parse
\* Most source lines of a generated token stream.
MaxLines == 2
\* Most tokens after the name in a generated test declaration.
MaxBody == 6

\* Tokens without their line.
Kw(kind) == [kind |-> kind, n |-> 0, s |-> ""]
Num(n) == [kind |-> "Number", n |-> n, s |-> ""]
Lab(s) == [kind |-> "Label", n |-> 0, s |-> s]
LabDef(s) == [kind |-> "LabelDef", n |-> 0, s |-> s]
TestNameOf(s) == [kind |-> "TestName", n |-> 0, s |-> s]
Open == Kw("OpenSquareBracket")
Close == Kw("CloseSquareBracket")
Comma == Kw("Comma")

\* The source lines the parser is checked on, as the lexer tokenizes them.
ParseLines ==
    {<<>>,
     <<Kw("Load"), Num(5)>>, <<Kw("Load"), Lab("x")>>, <<Kw("Load")>>,
     <<Kw("Load"), Num(5), Num(7)>>, <<Kw("Load"), Num(100)>>,
     <<Kw("Store"), Num(99)>>, <<Kw("Store"), Comma>>,
     <<Kw("Add"), Num(5)>>, <<Kw("Subtract"), Lab("y")>>,
     <<Kw("BranchZero"), Lab("x")>>, <<Kw("BranchPositive"), Num(5)>>,
     <<Kw("BranchAlways"), Num(5), Lab("x")>>,
     <<Kw("Input")>>, <<Kw("Input"), Num(5)>>, <<Kw("Output"), Lab("x")>>,
     <<Kw("Output")>>, <<Kw("Halt")>>,
     <<Kw("Data"), Num(7)>>, <<Kw("Data"), Num(999)>>, <<Kw("Data"), Num(1000)>>,
     <<Kw("Data")>>, <<Kw("Data"), Lab("x")>>,
     <<Kw("Data"), Num(7), Num(8)>>, <<Kw("Data"), Num(7), Lab("x")>>,
     <<LabDef("x")>>, <<LabDef("x"), LabDef("y")>>, <<LabDef("y"), Kw("Add"), Num(5)>>,
     <<Num(99), Num(99)>>, <<Lab("x")>>, <<Open>>, <<Close>>, <<Comma>>,
     <<TestNameOf("t"), Open, Num(1), Close, Open, Num(1), Comma, Num(2), Close>>,
     <<TestNameOf("t"), Open, Num(1000), Close, Open, Close>>,
     <<TestNameOf("t"), Open, Num(1), Close>>,
     <<TestNameOf("t"), Open, Num(1), Close, Open, Num(2), Close, Num(3)>>}

\* Test declarations: the lists of the parser's own tests, and every
\* sequence of up to MaxBody brackets, commas and literals.
BodyAlphabet == {Open, Close, Comma, Num(1)}

TestLines ==
    {<<TestNameOf("t")>> \o body : body \in Seqs(BodyAlphabet, MaxBody)}
    \cup {<<TestNameOf("t2"), Open, Num(2), Comma, Num(1), Comma, Num(0), Comma, Close,
            Open, Num(2), Comma, Num(1), Comma, Num(0), Close>>,
          <<TestNameOf("t3"), Open, Num(1), Comma, Comma, Num(2), Close, Open, Close>>,
          <<TestNameOf("t4"), Open, Num(1), Num(2), Close, Open, Close>>,
          <<TestNameOf("t5"), Open, Num(1), Comma, Lab("x"), Close, Open, Close>>,
          <<TestNameOf("t6"), Open, Close, Open, Num(1), Comma, Num(1000), Close>>}

\* The tokens of one line, closed by its NewLine (Lexer::make_tokens).
LineTokens(line, i) ==
    [k \in 1..Len(line) |-> Token(line[k].kind, line[k].n, line[k].s, i)]
    \o <<Token("NewLine", 0, "", i)>>

\* The tokens of lines i.. of a source (the loop of tokenize).
RECURSIVE Lexed(_, _)
Lexed(lines, i) ==
    IF i > Len(lines) THEN <<>> ELSE LineTokens(lines[i], i - 1) \o Lexed(lines, i + 1)

\* The sources the parser is checked on, as sequences of lines.
ParseSources == Seqs(ParseLines, MaxLines) \cup {<<l>> : l \in TestLines}

\* What tokenize hands to parse: the tokens of the lines, and the Eof unless
\* another line had a lexical error.
TokenStream(ls, eof) ==
    Lexed(ls, 1) \o (IF eof THEN <<Token("Eof", 0, "", Len(ls))>> ELSE <<>>)

\* parse(&tokens), at Parser::new.
InitParse ==
    /\ \E ls \in ParseSources : \E eof \in BOOLEAN : tokens = TokenStream(ls, eof)
    /\ parser = Parser_new(tokens)
    /\ parse_info = ParseInfo_new
    /\ source = <<>>
    /\ lexer = NotCalled
    /\ lex_errors = <<>>
    /\ parsed = NotCalled
    /\ assembled = NotCalled
    /\ made = NotCalled
    /\ BackIdle

\* One iteration of the loop of make_instructions.
ParseStatement ==
    /\ parser # NotCalled
    /\ parsed = NotCalled
    /\ ~AtEnd(parser)
    /\ parser' = statement(parser)
    /\ UNCHANGED <<back, source, lexer, lex_errors, tokens, parsed, assembled, made>>

\* The loop is left: make_instructions returns.
ParseReturn ==
    /\ parser # NotCalled
    /\ parsed = NotCalled
    /\ AtEnd(parser)
    /\ parser' = consume(parser)
    /\ parsed' = make_instructions_return(parser)
    /\ UNCHANGED <<back, source, lexer, lex_errors, tokens, assembled, made>>

NextParse == ParseStatement \/ ParseReturn

SpecParse == InitParse /\ [][NextParse]_vars

\* -------------------------------------------------------- make_program
\* Most lines of a generated source.
MaxSourceLines == 2

\* Source lines: blank and commented lines, instructions, data, test
\* definitions, and lines the lexer or the parser rejects.
SourceLines ==
    {"", "  sto x ; keep", "x: inp", "hlt", "add:", "99 99", "lda", "bra loop",
     "dat 1000", "one: dat 001", ".t1 [5] [5,4,]", ". [1] [1]", "lda #5", "brz\tx",
     Nbsp \o "hlt", Nbsp \o Nbsp \o "ab 12", "out ;" \o Nbsp}

Sources ==
    Seqs(SourceLines, MaxSourceLines)
    \cup {<<"add:", "99 99", "bra nowhere">>,
          <<"lda", "add 1", "hlt">>,
          <<"12abc", ".", "lda: 5", "X: dat", "[,]">>,
          <<"x: lda x", "inp", "x: sto x", "brz\tx">>,
          <<"dat 5 hlt">>,
          <<"dat 123 456">>,
          <<"     inp", "loop: out", "     sub one", "     brp loop", "     hlt",
            "one: dat 1", ".t1 [2] [2,1,0]">>}

\* make_program(source) has called tokenize, which is at its first line.
InitMake ==
    /\ source \in Sources
    /\ lexer = next_line(source, 0)
    /\ lex_errors = <<>>
    /\ tokens = <<>>
    /\ parser = NotCalled
    /\ parsed = NotCalled
    /\ assembled = NotCalled
    /\ made = NotCalled
    /\ parse_info = ParseInfo_new
    /\ BackIdle

\* make_tokens returned to the for loop of tokenize: the tokens of the line
\* are kept, or its error, and the loop goes on with the next line.
TokenizeLine(r) ==
    /\ IF IsOk(r)
       THEN tokens' = tokens \o r.val /\ UNCHANGED lex_errors
       ELSE lex_errors' = Append(lex_errors, r.err) /\ UNCHANGED tokens
    /\ lexer' = next_line(source, lexer.line + 1)

\* One iteration of the loop of make_tokens; a panic of the slice unwinds
\* through tokenize and make_program, which never return.
MakeTokensStep ==
    /\ IsLexer(lexer)
    /\ ~AtLineEnd(lexer)
    /\ LET r == make_tokens_step(lexer)
       IN  IF IsPanic(r.ret)
           THEN lexer' = r.ret /\ UNCHANGED <<tokens, lex_errors>>
           ELSE IF IsErr(r.ret)
           THEN TokenizeLine(r.ret)
           ELSE lexer' = r.lx /\ UNCHANGED <<tokens, lex_errors>>
    /\ UNCHANGED <<back, source, parser, parsed, assembled, made>>

\* The loop of make_tokens is left: the line is closed.
MakeTokensReturn ==
    /\ IsLexer(lexer)
    /\ AtLineEnd(lexer)
    /\ TokenizeLine(make_tokens_return(lexer))
    /\ UNCHANGED <<back, source, parser, parsed, assembled, made>>

\* tokenize returns, make_program pushes its error and calls parse on the
\* tokens: Parser::new.
TokenizeReturn ==
    /\ lexer = NoMoreLines
    /\ parser = NotCalled
    /\ LET r == tokenize_return(source, tokens, lex_errors)
       IN  /\ tokens' = IF IsOk(r) THEN r.val ELSE r.err.tokens
           /\ parser' = Parser_new(tokens')
    /\ UNCHANGED <<back, source, lexer, lex_errors, parsed, assembled, made>>

\* parse returned: make_program pushes its error and calls assemble on the
\* ParseInfo.
AssembleParsed ==
    /\ lexer = NoMoreLines
    /\ parsed # NotCalled
    /\ assembled = NotCalled
    /\ parse_info' = IF IsOk(parsed) THEN parsed.val ELSE parsed.err.info
    /\ assembled' = assemble(parse_info')
    /\ UNCHANGED <<mem, pc, acc, neg_flag, halted, input, output, log, result, cpc,
                   ins_count, results, table, source, lexer, lex_errors, tokens, parser,
                   parsed, made>>

\* make_program returns.
MakeReturn ==
    /\ lexer = NoMoreLines
    /\ assembled # NotCalled
    /\ made = NotCalled
    /\ made' = make_program_return(
                   lex_errors \o (IF IsErr(parsed) THEN parsed.err.errors ELSE <<>>),
                   parse_info, assembled)
    /\ UNCHANGED <<back, source, lexer, lex_errors, tokens, parser, parsed, assembled>>

NextMake ==
    \/ MakeTokensStep
    \/ MakeTokensReturn
    \/ TokenizeReturn
    \/ ParseStatement
    \/ ParseReturn
    \/ AssembleParsed
    \/ MakeReturn

SpecMake == InitMake /\ [][NextMake]_vars

\* ------------------------------------------------------------ claims
\* The state a step() call starts from when it fetches an instruction.
Fetching == ~halted /\ pc < MemSize /\ ~IsPanic(result)
Class == mem[pc] \div 100
Operand == mem[pc] % 100
Inputs == parse_info.tests[1].inputs
IsUndefined(r) == IsErr(r) /\ r.err.msg = "undefined instruction"
IsQueueEmpty(r) == IsErr(r) /\ r.err.msg = "error: input queue is empty!"

\* C1: halting is sticky: from a halted state every step leaves halted true,
\* returns Ok, leaves pc, acc, neg_flag and the memory unchanged, takes nothing
\* from the input source and sends nothing to the output sink.
C1_HaltingIsSticky ==
    [][halted => /\ halted'
                 /\ IsOk(result')
                 /\ UNCHANGED <<pc, acc, neg_flag, mem, input, output>>]_vars

\* A step() call was made on a halted interpreter.
C1_Witness ==
    halted /\ log = <<Msg("Cannot step: interpreter is halted", <<>>)>>

\* C2: while the interpreter is not halted, pc is an index of the memory.
C2_PcInMemory == ~halted => pc \in 0..(MemSize - 1)

\* C3: the accumulator and every memory cell hold a value in 0..999.
C3_ValuesInRange ==
    acc \in 0..999 /\ \A a \in 0..(MemSize - 1) : mem[a] \in 0..999

\* A Store has written the largest value into a cell of the image.
C3_Witness ==
    \E a \in 0..(MemSize - 1) : mem[a] = 999 /\ Image[a] # 999

\* C4: an Add sets acc to the sum wrapped below 1000 and clears neg_flag.
C4_AddWraps ==
    [][(Fetching /\ Class = 1) =>
         LET sum == acc + mem[Operand]
         IN  /\ acc' = IF sum < 1000 THEN sum ELSE sum - 1000
             /\ acc' < 1000
             /\ neg_flag' = FALSE]_vars

\* An Add whose unwrapped sum was 1000 or more has run.
C4_Witness ==
    /\ Len(log) = 3
    /\ log[3].msg = "overflow"
    /\ log[3].args[3] >= 1000
    /\ acc = log[3].args[3] - 1000
    /\ ~neg_flag

\* C5: a Subtract sets neg_flag exactly when acc < memory[addr], and acc to
\* the signed difference wrapped into 0..999.
C5_SubSetsNegFlag ==
    [][(Fetching /\ Class = 2) =>
         LET diff == acc - mem[Operand]
         IN  /\ neg_flag' = (acc < mem[Operand])
             /\ acc' = IF diff >= 0 THEN diff ELSE diff + 1000]_vars

\* A Subtract with a negative difference has run.
C5_Witness ==
    /\ Len(log) = 4
    /\ log[3].msg = "underflow"
    /\ log[3].args[3] < 0
    /\ acc = log[3].args[3] + 1000
    /\ neg_flag

\* C6: a BranchPositive sets pc to its operand when neg_flag is false,
\* whatever the accumulator, and leaves it at the fetch address plus one
\* when neg_flag is true.
C6_BrpOnNegFlag ==
    [][(Fetching /\ Class = 8) =>
         pc' = IF neg_flag THEN pc + 1 ELSE Operand]_vars

\* sub 99 / brp 0: the branch at address 1 was taken with acc = 0 after a
\* Subtract with a zero result.
C6_Witness ==
    /\ parse_info.instructions = <<Subtract(Numeric(99)), BranchPositive(Numeric(0))>>
    /\ Len(log) = 2
    /\ log[1] = Msg("Fetched instruction", <<800, 1>>)
    /\ acc = 0
    /\ pc = 0

\* C7: a step() of a running interpreter returns the undefined-instruction
\* error exactly for class 4, class 9 with an operand other than 01 and 02,
\* class 0 with an operand other than 00 and class 10 or more; and after any
\* step() that returned an error halted is false.
C7_UndefinedInstruction ==
    [][/\ Fetching =>
            (IsUndefined(result') <=>
                \/ Class = 4
                \/ Class = 9 /\ Operand \notin {1, 2}
                \/ Class = 0 /\ Operand # 0
                \/ Class >= 10)
       /\ IsErr(result') => ~halted']_vars

\* The cell 450 was fetched and step() returned the error.
C7_Witness ==
    /\ IsUndefined(result)
    /\ result.err.args = <<4, 50>>
    /\ log = <<Msg("Fetched instruction", <<450, pc - 1>>)>>
    /\ ~halted

\* C8: the i-th Input executed sets acc to the i-th pre-loaded value and
\* removes it from the queue; an Input on an empty queue returns the queue's
\* error and leaves acc unchanged; no other step touches the queue.
C8_InputFifo ==
    [][IF Fetching /\ mem[pc] = 901
       THEN LET k == Len(Inputs)
                i == k - Len(input.queue) + 1
            IN  IF i <= k
                THEN /\ acc' = Inputs[i]
                     /\ input'.queue = SubSeq(Inputs, i + 1, k)
                     /\ IsOk(result')
                ELSE /\ IsQueueEmpty(result')
                     /\ acc' = acc
                     /\ input' = input
       ELSE input' = input]_vars

\* The second of the values 5, 7 was taken by the second Input.
C8_Witness ==
    /\ Inputs = <<5, 7>>
    /\ Len(log) = 3
    /\ log[3] = Msg("--> was input value", <<7>>)
    /\ acc = 7
    /\ input.queue = <<>>

IsScenarioA ==
    parse_info.instructions = ScenarioA /\ parse_info.label_map = ScenarioALabels

\* n, n - 1, ..., 1, 0
CountDown(n) == [i \in 1..(n + 1) |-> n + 1 - i]

\* C9: run to completion on the single input n, the countdown program halts
\* and the output sink has received exactly n, n - 1, ..., 0, in that order;
\* for n = 3 that is 3, 2, 1, 0.
C9_CountdownHalts ==
    /\ (IsScenarioA /\ Len(input.stdin) = 1 /\ input.stdin[1] \in 0..999) =>
            <>[](/\ halted
                 /\ cpc = "returned"
                 /\ Len(input.history) = 1
                 /\ output.history = CountDown(input.history[1]))
    /\ [](IsScenarioA /\ cpc = "returned" /\ input.history = <<3>> =>
            halted /\ output.history = <<3, 2, 1, 0>>)

\* run has returned from the countdown of 3.
C9_Witness ==
    /\ IsScenarioA
    /\ input.history = <<3>>
    /\ halted
    /\ cpc = "returned"
    /\ IsOk(result)
    /\ output.history = <<3, 2, 1, 0>>

\* C10: run_test fails a test with the error of step() if a step() returned
\* one; else, after halting, with "unused inputs" if the queue is not empty;
\* else with "incorrect outputs" if the captured outputs are not the expected
\* sequence; otherwise the test passes.  The test t1 [5] [5,4,3,2,1,0] on the
\* countdown program passes.
C10_Classification ==
    /\ [][Len(results') = Len(results) + 1 =>
            LET r == results'[Len(results')].result
            IN  IF IsErr(result')
                THEN r = Failed(result'.err)
                ELSE /\ halted
                     /\ IF input.queue # <<>>
                        THEN r.kind = "Failed" /\ r.msg.msg = "unused inputs"
                        ELSE IF \/ Len(output.stack) # Len(Test.outputs)
                                \/ \E j \in 1..Len(output.stack) :
                                      output.stack[j] # Test.outputs[j]
                        THEN r.kind = "Failed" /\ r.msg.msg = "incorrect outputs"
                        ELSE r = Passed]_vars
    /\ [](\A j \in 1..Len(results) :
            (IsScenarioA /\ parse_info.tests[j] = T1) => results[j].result = Passed)

\* The second test of the countdown program, t1, has passed after the first,
\* t5, failed with unused inputs although its outputs differ as well.
C10_Witness ==
    /\ IsScenarioA
    /\ Len(parse_info.tests) = 2
    /\ parse_info.tests[2] = T1
    /\ Len(results) = 2
    /\ results[1].result = Failed(Msg("unused inputs", <<7>>))
    /\ results[1].actual_output # results[1].expected_output
    /\ results[2].result = Passed
    /\ results[2].actual_output = <<5, 4, 3, 2, 1, 0>>

\* run_tests has ended: it returned, or a panic has unwound through it.
RunTestsEnded == cpc = "returned" \/ IsPanic(result)

\* C11: run_tests executes every declared test, in declaration order, each on
\* an interpreter of its own that starts from the assembled image with pc = 0,
\* acc = 0, neg_flag and halted false: when run_tests has ended there is one
\* result per declared test, whatever the other tests stored or however they
\* failed.
C11_EveryTestRunsAlone ==
    /\ (cpc = "test" /\ result = NotCalled) =>
           /\ mem = Image
           /\ pc = 0 /\ acc = 0 /\ ~neg_flag /\ ~halted
           /\ input.queue = Test.inputs /\ output.stack = <<>>
    /\ Len(results) <= Len(parse_info.tests)
    /\ \A k \in 1..Len(results) : results[k].name = parse_info.tests[k].name
    /\ RunTestsEnded => Len(results) = Len(parse_info.tests)


\* The instructions of the assembled program and the labels it refers to.
Instructions == parse_info.instructions
HasAddr(ins) == "addr" \in DOMAIN ins
IsUndefinedRef(ins) ==
    /\ HasAddr(ins)
    /\ ins.addr.kind = "Symbolic"
    /\ ins.addr.label \notin DOMAIN parse_info.label_map
UndefinedRefs == {i \in 1..Len(Instructions) : IsUndefinedRef(Instructions[i])}

\* The instruction encoding of the language: the base of the mnemonic plus
\* the address, a symbolic address being its value in the label map.
OpBase ==
    "Load" :> 500 @@ "Store" :> 300 @@ "Add" :> 100 @@ "Subtract" :> 200
    @@ "BranchAlways" :> 600 @@ "BranchZero" :> 700 @@ "BranchPositive" :> 800

Encoding(ins) ==
    IF HasAddr(ins)
    THEN OpBase[ins.op] + (IF ins.addr.kind = "Numeric"
                           THEN ins.addr.n
                           ELSE parse_info.label_map[ins.addr.label])
    ELSE CASE ins.op = "Input" -> 901
           [] ins.op = "Output" -> 902
           [] ins.op = "Halt" -> 0
           [] ins.op = "Data" -> ins.data

\* C12: for N < 100 instructions whose symbolic addresses are all defined,
\* assemble returns an image: cell i is the encoding of instruction i for
\* i < N, and every cell from N to 99 is 0.
C12_ImageIsEncoding ==
    (assembled # NotCalled /\ Len(Instructions) < 100 /\ UndefinedRefs = {}) =>
        /\ IsOk(assembled)
        /\ DOMAIN assembled.val = 0..99
        /\ \A i \in 0..99 :
              assembled.val[i] = IF i < Len(Instructions)
                                 THEN Encoding(Instructions[i + 1])
                                 ELSE 0

C12_Witness ==
    /\ IsOk(assembled)
    /\ Instructions = <<BranchPositive(Symbolic("y")), Data(123)>>
    /\ assembled.val[0] = 802 /\ assembled.val[1] = 123 /\ assembled.val[2] = 0

\* C13: assemble fails with the over-capacity diagnostic exactly when the
\* instruction list has 100 or more entries, also when a label is undefined:
\* every assembled program has at most 99 instructions.
C13_Capacity ==
    assembled # NotCalled =>
        /\ (IsErr(assembled) /\ assembled.err = Msg("Too many instructions",
                                                     <<Len(Instructions)>>))
               <=> Len(Instructions) >= 100
        /\ IsOk(assembled) => Len(Instructions) <= 99
        /\ (Len(Instructions) = 99 /\ UndefinedRefs = {}) => IsOk(assembled)

C13_Witness ==
    /\ IsErr(assembled)
    /\ Len(Instructions) = 100
    /\ UndefinedRefs # {}
    /\ assembled.err.msg = "Too many instructions"

IsLabelError(r, label) ==
    IsErr(r) /\ r.err = [msg |-> "Label is not defined", label |-> label]

\* The first instruction in program order that refers to an undefined label.
FirstUndefinedRef == CHOOSE i \in UndefinedRefs : \A j \in UndefinedRefs : i <= j

\* C14 as stated: whenever an instruction refers to a label absent from the
\* label map, assemble returns the "label not defined" error of the first
\* such instruction.
C14_UndefinedLabel ==
    (assembled # NotCalled /\ UndefinedRefs # {}) =>
        IsLabelError(assembled, Instructions[FirstUndefinedRef].addr.label)

\* C14, amended: in a program of fewer than 100 instructions a reference to
\* an undefined label makes assemble return, instead of an image, the "label
\* not defined" error of the first such instruction in program order; later
\* undefined labels are not reported.
C14_UndefinedLabelBelowCapacity ==
    (assembled # NotCalled /\ UndefinedRefs # {} /\ Len(Instructions) < 100) =>
        IsLabelError(assembled, Instructions[FirstUndefinedRef].addr.label)

C14_Witness ==
    /\ Instructions = <<Load(Symbolic("y")), Store(Symbolic("x"))>>
    /\ parse_info.label_map = NoLabels
    /\ IsLabelError(assembled, "y")


\* A statement is about to be parsed: Tok is its first token, Operands the
\* tokens that follow it on its line.
AtStatement == parser # NotCalled /\ parsed = NotCalled /\ ~AtEnd(parser)
Tok == Head(parser.it)
EolIndex(seq) ==
    CHOOSE i \in 1..(Len(seq) + 1) :
        /\ \A j \in 1..(i - 1) : seq[j].kind \notin EndOfLine
        /\ IF i <= Len(seq) THEN seq[i].kind \in EndOfLine ELSE TRUE
Operands == SubSeq(Tail(parser.it), 1, EolIndex(Tail(parser.it)) - 1)
\* The statement failed: the step recorded one more error.
Fails == Len(parser'.errors) = Len(parser.errors) + 1
Emitted == Len(parser'.info.instructions) - Len(parser.info.instructions)

\* C15: the program-address counter is the number of instructions emitted so
\* far: a step advances it by one exactly when it emits an instruction, not
\* on a label definition, a test declaration, a blank line or a statement
\* that fails; a label definition maps its name to the number of
\* instructions emitted before it and changes nothing else.
C15_ProgramAddress ==
    [][parser' # NotCalled =>
        /\ parser'.paddr = Len(parser'.info.instructions)
        /\ parser'.paddr - parser.paddr = Emitted
        /\ Emitted \in {0, 1}
        /\ (AtStatement /\ Tok.kind \in {"LabelDef", "TestName", "NewLine"}) =>
               Emitted = 0
        /\ (AtStatement /\ Fails) => Emitted = 0
        /\ (AtStatement /\ Tok.kind = "LabelDef") =>
               /\ parser'.info.label_map =
                      insert(parser.info.label_map, Tok.s,
                             Len(parser.info.instructions))
               /\ parser'.it = Tail(parser.it)
        /\ (AtStatement /\ Tok.kind # "LabelDef") =>
               parser'.info.label_map = parser.info.label_map]_vars

C15_Witness ==
    /\ parser # NotCalled
    /\ parser.paddr = 1
    /\ parser.info.instructions = <<Load(Numeric(5))>>
    /\ parser.info.label_map = ("x" :> 1 @@ "y" :> 1)
    /\ parser.errors = <<>>

\* The tokens from the first end-of-line token on.
FromEol(seq) == SubSeq(seq, EolIndex(seq), Len(seq))

\* C16: a statement that fails to parse records exactly one error and
\* discards only the remaining tokens of its own line: the parser resumes at
\* the end-of-line token of that line or behind it, so that no token of
\* another line is lost and the statement of every other line is parsed.
C16_RecoveryStaysOnLine ==
    [][(AtStatement /\ Len(parser'.errors) > Len(parser.errors)) =>
        /\ Fails
        /\ \/ parser'.it = FromEol(parser.it)
           \/ parser'.it = Tail(FromEol(parser.it))]_vars

\* C18: a statement with the wrong number of operands is an error of the
\* parse: an address-taking mnemonic with no operand or more than one token
\* before the end of its line, and a no-address mnemonic with any token
\* before the end of its line, fail and emit nothing; dat with a literal
\* leaves a further number or label as the start of the next statement, and
\* a statement that starts with a number or a label fails.  Errors are never
\* dropped, and parse returns an error exactly when one was recorded.
C18_OperandCount ==
    [][parser' # NotCalled =>
        /\ Len(parser'.errors) >= Len(parser.errors)
        /\ (AtStatement /\ Tok.kind \in AddrMnemonics /\ Len(Operands) # 1) =>
               Fails /\ Emitted = 0
        /\ (AtStatement /\ Tok.kind \in NoAddrMnemonics /\ Len(Operands) # 0) =>
               Fails /\ Emitted = 0
        /\ (AtStatement /\ Tok.kind = "Data" /\ Len(Operands) >= 2) =>
               ((Operands[1].kind = "Number" /\ Operands[1].n < 1000
                 /\ Operands[2].kind \in {"Number", "Label"}) =>
                    /\ parser'.it = Tail(Tail(parser.it))
                    /\ Head(parser'.it) = Operands[2])
        /\ (AtStatement /\ Tok.kind \in {"Number", "Label"}) => Fails /\ Emitted = 0
        /\ parsed' # NotCalled => (IsErr(parsed') <=> parser.errors # <<>>)]_vars

C18_Witness ==
    /\ IsErr(parsed)
    /\ Len(tokens) = 5
    /\ tokens[1].kind = "Data" /\ tokens[2].kind = "Number" /\ tokens[3].kind = "Number"
    /\ parsed.err.info.instructions = <<Data(7)>>
    /\ Len(parsed.err.errors) = 1
    /\ parsed.err.errors[1].e.msg = "found number instead of instruction/label def"

\* The numbers of a parse output are in range.
InRange(info) ==
    /\ \A i \in 1..Len(info.instructions) :
          LET ins == info.instructions[i]
          IN  /\ (HasAddr(ins) /\ ins.addr.kind = "Numeric") => ins.addr.n \in 0..99
              /\ ins.op = "Data" => ins.data \in 0..999
    /\ \A i \in 1..Len(info.tests) :
          /\ \A k \in 1..Len(info.tests[i].inputs) : info.tests[i].inputs[k] \in 0..999
          /\ \A k \in 1..Len(info.tests[i].outputs) : info.tests[i].outputs[k] \in 0..999

\* C19: in the parser's output, with or without errors, every numeric
\* address is in 0..99, every data literal and every value of a test in
\* 0..999; a numeric address of 100 or more, a dat literal of 1000 or more
\* and a literal of 1000 or more in a test declaration are each an error
\* that emits nothing.
C19_Ranges ==
    [][parser' # NotCalled =>
        /\ InRange(parser'.info)
        /\ (AtStatement /\ Operands # <<>> /\ Operands[1].kind = "Number") =>
               /\ (Tok.kind \in AddrMnemonics /\ Operands[1].n >= 100) =>
                      Fails /\ parser'.info = parser.info
               /\ (Tok.kind = "Data" /\ Operands[1].n >= 1000) =>
                      Fails /\ parser'.info = parser.info
        /\ (AtStatement /\ Tok.kind = "TestName"
            /\ \E k \in 1..Len(Operands) :
                  Operands[k].kind = "Number" /\ Operands[k].n >= 1000) =>
               Fails /\ parser'.info = parser.info]_vars

C19_Witness ==
    /\ IsErr(parsed)
    /\ Len(tokens) = 7
    /\ tokens[1].kind = "Load" /\ tokens[2].n = 100
    /\ tokens[4].kind = "Data" /\ tokens[5].n = 999
    /\ parsed.err.info.instructions = <<Data(999)>>
    /\ Len(parsed.err.errors) = 1

\* The number-list grammar: literals at the odd places, commas at the even
\* places, which allows one comma after the last literal.
IsNumberList(l) ==
    \A i \in 1..Len(l) :
        IF i % 2 = 1
        THEN l[i].kind = "Number" /\ l[i].n < 1000
        ELSE l[i].kind = "Comma"
Literals(l) == [k \in 1..((Len(l) + 1) \div 2) |-> l[2 * k - 1].n]

\* Where the first of two bracketed number lists ends in the operands of a
\* test declaration, if they are two such lists and nothing else.
ListSplits(body) ==
    {c \in 2..(Len(body) - 2) :
        /\ body[1].kind = "OpenSquareBracket"
        /\ body[c].kind = "CloseSquareBracket"
        /\ body[c + 1].kind = "OpenSquareBracket"
        /\ body[Len(body)].kind = "CloseSquareBracket"
        /\ IsNumberList(SubSeq(body, 2, c - 1))
        /\ IsNumberList(SubSeq(body, c + 2, Len(body) - 1))}

\* C20: a test declaration is recorded exactly when its name is followed by
\* two number lists and the end of the line, a number list being "[", zero
\* or more literals separated by single commas, an optional comma after the
\* last literal, and "]"; the test holds the literals of each list in
\* order.  Anything else is an error and records no test: two literals
\* without a comma, a comma that follows no literal, a token that is not a
\* number, a missing bracket, a missing or a third list.
C20_NumberLists ==
    [][(AtStatement /\ Tok.kind = "TestName") =>
        LET splits == ListSplits(Operands)
            c == CHOOSE c \in splits : TRUE
        IN  IF splits # {}
            THEN /\ parser'.info.tests =
                        Append(parser.info.tests,
                               LNCTest(Tok.s,
                                       Literals(SubSeq(Operands, 2, c - 1)),
                                       Literals(SubSeq(Operands, c + 2,
                                                       Len(Operands) - 1))))
                 /\ parser'.errors = parser.errors
            ELSE /\ parser'.info.tests = parser.info.tests
                 /\ Fails]_vars

C20_Witness ==
    /\ parser # NotCalled
    /\ parser.info.tests = <<LNCTest("t2", <<2, 1, 0>>, <<2, 1, 0>>)>>
    /\ parser.errors = <<>>


\* The parse errors and the assembly error make_program met.
ParseErrors == IF IsErr(parsed) THEN parsed.err.errors ELSE <<>>
AssemblyErrors == IF IsErr(assembled) THEN <<assembled.err>> ELSE <<>>

\* C17: make_program returns a program only when lexing, parsing and
\* assembly all report no error, and then it is the image with the parse
\* output; otherwise it returns one diagnostic that holds the errors of
\* every stage that failed: the lexical errors, then the parse errors, then
\* the assembly error.
C17_AggregateDiagnostic ==
    made # NotCalled =>
        LET all == lex_errors \o ParseErrors \o AssemblyErrors
        IN  IF all = <<>>
            THEN /\ IsOk(made)
                 /\ made.val = [mem |-> assembled.val, parse_info |-> parsed.val]
            ELSE /\ IsErr(made)
                 /\ made.err = all

\* The source with `add:` on one line and `99 99` on another: one diagnostic
\* for each line in the same message.
C17_Witness ==
    /\ source = <<"add:", "99 99">>
    /\ IsErr(made)
    /\ Len(made.err) = 2
    /\ made.err[1].line = 0 /\ made.err[1].e.msg = "cannot use keyword as label name"
    /\ made.err[2].line = 1
    /\ made.err[2].e.msg = "found number instead of instruction/label def"

\* A step that ends the lexing of a line: the for loop of tokenize moves on.
LineEnds ==
    /\ IsLexer(lexer)
    /\ ~IsPanic(lexer')
    /\ ~(IsLexer(lexer') /\ lexer'.line = lexer.line)

NewLines(toks) == {i \in 1..Len(toks) : toks[i].kind = "NewLine"}

\* What tokenize does with each line and when it returns.
TokenizeByLine ==
    /\ LineEnds =>
         /\ IF lexer.line + 1 < Len(source)
            THEN lexer' = Lexer_new(lexer.line + 1, source[lexer.line + 2])
            ELSE lexer' = NoMoreLines
         /\ \/ /\ lex_errors' = lex_errors
               /\ tokens' = tokens \o Append(lexer.tokens,
                                            Token("NewLine", 0, "", lexer.line))
               /\ \A i \in 1..Len(lexer.tokens) : lexer.tokens[i].kind # "NewLine"
            \/ /\ tokens' = tokens
               /\ Len(lex_errors') = Len(lex_errors) + 1
               /\ SubSeq(lex_errors', 1, Len(lex_errors)) = lex_errors
    /\ (parser = NotCalled /\ parser' # NotCalled) =>
         /\ lexer = NoMoreLines
         /\ Len(lex_errors) + Cardinality(NewLines(tokens)) = Len(source)
         /\ tokens' = IF lex_errors = <<>>
                      THEN Append(tokens, Token("Eof", 0, "", Len(source)))
                      ELSE tokens
         /\ \A i \in 1..Len(tokens) : tokens[i].kind # "Eof"

\* C21: tokenize processes every line, also after a line failed: each line
\* adds either its tokens closed by its end-of-line token or one error and no
\* token, in line order, and the returned stream ends with the end-of-input
\* token exactly when no line had an error.
C21_EveryLineLexed ==
    [][TokenizeByLine /\ ~IsPanic(lexer')]_vars

\* The part of C21 that holds: whenever tokenize returns, it has done so.
C21_ReturnedStream == [][TokenizeByLine]_vars

\* The mnemonic of an instruction: the keyword the lexer maps to its kind.
MnemonicOf(ins) == CHOOSE w \in DOMAIN Keywords : Keywords[w] = ins.op

\* The operand an instruction was written with: its address, a symbolic
\* one being the address of its label, or the literal of a dat.
OperandOf(ins) ==
    CASE ins.op = "Data" -> ins.data
      [] ins.addr.kind = "Numeric" -> ins.addr.n
      [] OTHER -> parse_info.label_map[ins.addr.label]

\* Row i + 1 of the table shows the mnemonic of instruction ins and, of an
\* instruction with an operand, the operand behind it.
Recovered(ins, row) ==
    LET text == row.mnemonic
    IN  /\ Len(text) >= 3
        /\ SubSeq(text, 1, 3) = MnemonicOf(ins)
        /\ IF ins.op \in {"Input", "Output", "Halt"}
           THEN Len(text) = 3
           ELSE /\ Len(text) > 4
                /\ SubSeq(text, 4, 4) = " "
                /\ IsDigits(SubSeq(text, 5, Len(text)))
                /\ parse_usize(SubSeq(text, 5, Len(text)), Len(text) - 4) = OperandOf(ins)

Shown == {i \in 1..Len(Instructions) : i <= Len(table)}

\* C22 as stated: the table row of every instruction of the eleven, dat
\* included, decodes to its mnemonic and its operand.
C22_RoundTrip ==
    \A i \in Shown : Recovered(Instructions[i], table[i])

\* C22: the table row of every instruction other than dat decodes to its
\* mnemonic and its operand.
C22_RoundTripOfExecutable ==
    \A i \in Shown :
        Instructions[i].op # "Data" => Recovered(Instructions[i], table[i])

\* sto x / lda 7 was assembled with x at address 0 and is shown as sto 00 /
\* lda 07.
C22_Witness ==
    /\ Instructions = <<Store(Symbolic("x")), Load(Numeric(7))>>
    /\ Len(table) = Height
    /\ table[1].mnemonic = "sto 00" /\ table[1].mem = "300" /\ table[1].arrow = ">"
    /\ table[2].mnemonic = "lda 07" /\ table[2].mem = "507" /\ table[2].addr = "01"
    /\ table[3].mnemonic = "hlt" /\ table[3].mem = "000"

\* C23: a successful step() of a running interpreter that fetched from p
\* leaves pc at the operand after a BranchAlways, a BranchZero with acc = 0
\* and a BranchPositive with neg_flag false, acc and neg_flag being those
\* before the step, and at p + 1 in every other case.
C23_NextPc ==
    [][(Fetching /\ IsOk(result')) =>
         pc' = IF \/ Class = 6
                  \/ Class = 7 /\ acc = 0
                  \/ Class = 8 /\ ~neg_flag
               THEN Operand
               ELSE pc + 1]_vars

\* lda 0 / brz 99: the BranchZero at address 1 was not taken, acc being 500.
C23_Witness ==
    /\ IsOk(result)
    /\ log = <<Msg("Fetched instruction", <<799, 1>>), Msg("--> brz", <<99>>)>>
    /\ acc = 500
    /\ pc = 2

\* C24: neg_flag is changed by Subtract and Add only: every other step leaves
\* it as it was, so while it is set a BranchPositive is not taken, whatever
\* was loaded into the accumulator since.
C24_NegFlagFrame ==
    [][/\ ~(Fetching /\ Class \in {1, 2}) => neg_flag' = neg_flag
       /\ (Fetching /\ Class = 8 /\ neg_flag) => (pc' = pc + 1 /\ neg_flag')]_vars

\* sub 0 / lda 99 / brp 0: the Subtract underflowed, the Load put 0 into the
\* accumulator, and the BranchPositive at address 2 was not taken.
C24_Witness ==
    /\ parse_info.instructions = SubLoadBrp
    /\ log = <<Msg("Fetched instruction", <<800, 2>>), Msg("--> brp", <<0>>)>>
    /\ acc = 0
    /\ neg_flag
    /\ pc = 3

\* C25: the memory is written by Store only: a Store sets the cell of its
\* operand to the accumulator and leaves the other cells and the accumulator
\* alone, every other step leaves all cells unchanged; so a cell behind the
\* program is 0 until a Store to it runs.
C25_MemoryFrame ==
    [][/\ IF Fetching /\ Class = 3
          THEN /\ mem' = [mem EXCEPT ![Operand] = acc]
               /\ acc' = acc
               /\ IsOk(result')
          ELSE mem' = mem
       /\ \A a \in Len(parse_info.instructions)..(MemSize - 1) :
             (mem[a] = 0 /\ mem'[a] # 0) => (Fetching /\ mem[pc] = 300 + a)]_vars

\* lda 0 / sto 99: the Store has put 500 into the last cell, which was 0.
C25_Witness ==
    /\ log = <<Msg("Fetched instruction", <<399, 1>>), Msg("--> sto", <<99>>)>>
    /\ Image[99] = 0
    /\ mem[99] = 500
    /\ acc = 500
    /\ \A a \in 0..98 : mem[a] = Image[a]

\* C29: a step() that returns an error has moved pc to the fetch address
\* plus one and left acc, neg_flag, halted, the memory and the output sink
\* as they were; after an undefined instruction the input source is as it
\* was, too.
C29_FailedStep ==
    [][IsErr(result') =>
         /\ Fetching
         /\ pc' = pc + 1
         /\ UNCHANGED <<acc, neg_flag, halted, mem, output>>
         /\ IsUndefined(result') => input' = input]_vars

\* lda 0 / inp on an empty queue: the Input at address 1 failed, pc is 2 and
\* the accumulator still holds 500.
C29_Witness ==
    /\ IsQueueEmpty(result)
    /\ log = <<Msg("Fetched instruction", <<901, 1>>), Msg("--> inp", <<>>)>>
    /\ pc = 2
    /\ acc = 500
    /\ ~halted

\* C30: the ports are touched by Input and Output only: a successful Input
\* takes exactly one value from the input source, an Output appends exactly
\* the accumulator to what was sent and leaves the accumulator alone, and no
\* other step takes input or sends output; the values taken are as many as
\* the Inputs that succeeded.
C30_PortsFrame ==
    [][/\ IF Fetching /\ mem[pc] = 901
          THEN IF IsOk(result')
               THEN input'.queue = Tail(input.queue) /\ input.queue # <<>>
               ELSE input' = input
          ELSE input' = input
       /\ IF Fetching /\ mem[pc] = 902
          THEN /\ output'.stack = Append(output.stack, acc)
               /\ acc' = acc
               /\ IsOk(result')
          ELSE output' = output
       /\ Len(output'.stack) >= Len(output.stack)
       /\ SubSeq(output'.stack, 1, Len(output.stack)) = output.stack]_vars

\* inp / out on the input 5, 7: the Input took the 5 and left the 7, the
\* Output sent the 5.
C30_Witness ==
    /\ Inputs = <<5, 7>>
    /\ log = <<Msg("Fetched instruction", <<902, 1>>), Msg("--> out", <<>>),
               Msg("--> was output value", <<5>>)>>
    /\ input.queue = <<7>>
    /\ output.stack = <<5>>
    /\ acc = 5

\* The image starts with bra 0.
SpinsAtZero == Image[0] = 600

\* C28: nothing stops a program that only branches to itself: with bra 0 in
\* cell 0 the run loop never sees halted, keeps stepping for as many steps as
\* are looked at, and after every step pc = 0, acc = 0, neg_flag and halted
\* are false, no input was taken and no output sent.
C28_SpinsForever ==
    /\ [](SpinsAtZero =>
            /\ pc = 0 /\ acc = 0 /\ ~neg_flag /\ ~halted
            /\ cpc = "run"
            /\ ~IsErr(result)
            /\ input.history = <<>>
            /\ output = CLIOutput_default)
    /\ [][SpinsAtZero => input' = input]_vars
    /\ (SpinsAtZero => <>[](ins_count = MaxSteps))

\* The run loop has made MaxSteps steps on bra 0 and is still in the loop.
C28_Witness ==
    /\ SpinsAtZero
    /\ ins_count = MaxSteps
    /\ log = <<Msg("Fetched instruction", <<600, 0>>), Msg("--> bra", <<0>>)>>
    /\ pc = 0
    /\ ~halted
    /\ cpc = "run"

\* The tokens that start an instruction, the places where label l is defined
\* in the token stream, and the number of instructions written before
\* place i of a source without errors.
Mnemonics == AddrMnemonics \cup NoAddrMnemonics \cup {"Data"}
DefsOf(l) == {i \in 1..Len(tokens) : tokens[i].kind = "LabelDef" /\ tokens[i].s = l}
LastDefOf(l) == CHOOSE i \in DefsOf(l) : \A j \in DefsOf(l) : j <= i
AddressAt(i) == Cardinality({j \in 1..(i - 1) : tokens[j].kind \in Mnemonics})
Defined == {tokens[i].s : i \in {j \in 1..Len(tokens) : tokens[j].kind = "LabelDef"}}

\* C26: a label defined more than once has one entry in the label map, the
\* program address at its last definition, and every instruction that
\* refers to it, before or behind that definition, is assembled with that
\* address.
C26_LastDefinitionWins ==
    /\ [][(AtStatement /\ Tok.kind = "LabelDef") =>
            /\ DOMAIN parser'.info.label_map = DOMAIN parser.info.label_map \cup {Tok.s}
            /\ parser'.info.label_map[Tok.s] = parser.paddr
            /\ \A l \in DOMAIN parser.info.label_map \ {Tok.s} :
                  parser'.info.label_map[l] = parser.info.label_map[l]]_vars
    /\ []((assembled # NotCalled /\ lex_errors = <<>> /\ IsOk(parsed)) =>
            /\ DOMAIN parse_info.label_map = Defined
            /\ \A l \in Defined : parse_info.label_map[l] = AddressAt(LastDefOf(l))
            /\ IsOk(assembled) =>
                 \A i \in 1..Len(Instructions) :
                    (HasAddr(Instructions[i]) /\ Instructions[i].addr.kind = "Symbolic") =>
                        assembled.val[i - 1] =
                            OpBase[Instructions[i].op]
                            + AddressAt(LastDefOf(Instructions[i].addr.label)))

\* x: lda x / inp / x: sto x / brz x: x was defined at address 0 and again at
\* address 2, and the three references are all assembled with 2.
C26_Witness ==
    /\ source = <<"x: lda x", "inp", "x: sto x", "brz\tx">>
    /\ IsOk(made)
    /\ made.val.parse_info.label_map = ("x" :> 2)
    /\ made.val.mem[0] = 502
    /\ made.val.mem[1] = 901
    /\ made.val.mem[2] = 302
    /\ made.val.mem[3] = 702

\* C27: dat takes exactly one literal below 1000 and emits a Data without
\* looking for the end of the line: the token behind the literal starts the
\* next statement.  `dat 5 hlt` gives Data(5) and Halt at addresses 0 and 1
\* and no error; `dat 123 456` gives Data(123) and one error, for the stray
\* number.
C27_DatTakesOneLiteral ==
    /\ [][(/\ AtStatement
           /\ Tok.kind = "Data"
           /\ Len(parser.it) >= 2
           /\ parser.it[2].kind = "Number"
           /\ parser.it[2].n < 1000) =>
            /\ parser'.info.instructions =
                   Append(parser.info.instructions, Data(parser.it[2].n))
            /\ parser'.it = SubSeq(parser.it, 3, Len(parser.it))
            /\ parser'.errors = parser.errors]_vars
    /\ []((made # NotCalled /\ source = <<"dat 5 hlt">>) =>
            /\ IsOk(made)
            /\ made.val.parse_info.instructions = <<Data(5), Halt>>
            /\ made.val.mem[0] = 5 /\ made.val.mem[1] = 0)
    /\ []((made # NotCalled /\ source = <<"dat 123 456">>) =>
            /\ IsErr(made)
            /\ parse_info.instructions = <<Data(123)>>
            /\ Len(made.err) = 1
            /\ made.err[1].line = 0
            /\ made.err[1].e = PErr("found number instead of instruction/label def",
                                    456, ""))

\* make_program has returned the program of `dat 5 hlt`.
C27_Witness ==
    /\ source = <<"dat 5 hlt">>
    /\ IsOk(made)
    /\ made.val.parse_info.instructions = <<Data(5), Halt>>
    /\ tokens[3].kind = "Halt"

\* The test's run loop was left on a halt at the first cell holding 0, after
\* as many steps as that cell's address plus one.
HaltedAtFirstZero ==
    \E image \in {Image} :
        /\ halted
        /\ pc \in 1..MemSize
        /\ image[pc - 1] = 0
        /\ \A b \in 0..(pc - 2) : image[b] # 0
        /\ ins_count = pc

\* C31: when no cell of the image has class 3, 6, 7 or 8, the run loop of a
\* test takes at most 100 steps and ends: it never reads past the memory, the
\* memory stays the image, and the loop is left either halted at the first
\* cell holding 0 (a program of N defined instructions without hlt: at cell N),
\* or on an undefined-instruction error, or because the input source failed.
C31_StraightLineHalts ==
    /\ [](Straight /\ cpc = "test" =>
            /\ ins_count <= MemSize
            /\ ~IsPanic(result)
            /\ mem = Image
            /\ ~halted => pc = ins_count)
    /\ [][Straight /\ cpc = "test" /\ cpc' = "tests" =>
            \/ HaltedAtFirstZero
            \/ IsUndefined(result') /\ ins_count < MemSize
            \/ IsQueueEmpty(result')]_vars
    /\ ((Straight /\ cpc = "test") ~> (cpc # "test"))

\* The 99 instructions without hlt have run and the 100th step halted on the
\* zero cell at address 99.
C31_Witness ==
    /\ Straight
    /\ cpc = "test"
    /\ parse_info.instructions = Straight99
    /\ halted
    /\ pc = MemSize
    /\ ins_count = MemSize
    /\ Len(output.stack) = 33

\* The tokens an iteration took from the iterator.
Taken == Len(parser.it) - Len(parser'.it)

\* q is what is left of the tokens it after at least least tokens were taken.
IsRest(q, it, least) ==
    /\ Len(q) + least <= Len(it)
    /\ q = SubSeq(it, Len(it) - Len(q) + 1, Len(it))

\* The loops inside a statement, run on the tokens that are left: sync stops
\* at the end of the tokens or in front of a NewLine or Eof, number_list's loop
\* at the end of the tokens or in front of a token it does not take; both leave
\* a rest of the tokens.
InnerLoopsStop ==
    /\ \E q \in {sync(parser)} :
          /\ IsRest(q.it, parser.it, 0)
          /\ q.it # <<>> => Head(q.it).kind \in EndOfLine
          /\ \A i \in 1..(Len(parser.it) - Len(q.it)) :
                parser.it[i].kind \notin EndOfLine
    /\ \E l \in {number_list_loop(parser, <<>>, FALSE)} :
          /\ IsRest(l.p.it, parser.it, 0)
          /\ l.p.it # <<>> /\ IsOk(l.ret) => Head(l.p.it).kind = "CloseSquareBracket"
          /\ \A i \in 1..(Len(parser.it) - Len(l.p.it)) :
                parser.it[i].kind \in {"Number", "Comma"}

\* An iteration of the statement loop, run from the state, shortens the rest
\* of the tokens.
IterationConsumes == Len(statement(parser).it) < Len(parser.it)

\* C32: parse terminates on the token streams tokenize hands over, with and
\* without the closing Eof: while parse has not returned, the rest of the
\* tokens is never longer than the stream, the loop is either at its exit or
\* its next iteration shortens the rest, and the resynchronisation loop and
\* the number-list loop stop on a rest of the tokens; every iteration taken
\* removes at least one token from the front and never an Eof; the loop is
\* left at the end of the tokens or at the Eof, behind which nothing is left,
\* and after the return nothing is parsed.
C32_ParseTerminates ==
    /\ [](parser # NotCalled /\ parsed = NotCalled =>
            /\ Len(parser.it) <= Len(tokens)
            /\ InnerLoopsStop
            /\ ~AtEnd(parser) => IterationConsumes)
    /\ [][parser # NotCalled /\ parsed' = NotCalled =>
            /\ Taken >= 1
            /\ IsRest(parser'.it, parser.it, 1)
            /\ \A i \in 1..Taken : parser.it[i].kind # "Eof"]_vars
    /\ [][parser # NotCalled /\ parsed = NotCalled /\ parsed' # NotCalled =>
            /\ AtEnd(parser)
            /\ Len(parser.it) <= 1
            /\ parser'.it = <<>>
            /\ parser'.info = parser.info
            /\ parser'.errors = parser.errors]_vars
    /\ [][parsed # NotCalled => parser' = parser /\ parsed' = parsed]_vars

\* A test declaration with an error in its number list, on a stream without
\* Eof, has been parsed to the end of the tokens.
C32_Witness ==
    /\ Len(tokens) >= 8
    /\ tokens[1].kind = "TestName"
    /\ tokens[Len(tokens)].kind # "Eof"
    /\ IsErr(parsed)
    /\ parser.it = <<>>

====
